---- MODULE Spec2Model ----
(***************************************************************************)
(* A model of the FlutterFlow MCP server's project-configuration codec and *)
(* mutation layer (src/src/yaml-utils.ts, class YamlUtils).                *)
(*                                                                         *)
(* JavaScript values are tagged records:                                   *)
(*   Null        null / undefined (both falsy, both stop a ?. chain)       *)
(*   Str(s)      a string scalar                                           *)
(*   Map(f)      an object, f a function from property names to values     *)
(*   Lst(l)      an array, l a sequence of values                          *)
(* A Document Mapping (ProjectYamlFiles) is a function from path strings   *)
(* to values.  Paths are real strings; includes / endsWith / split /       *)
(* replace are computed on their characters.                               *)
(***************************************************************************)
EXTENDS Naturals, Sequences, FiniteSets, TLC

VARIABLES files, blob, out, hist, remote, pending

\* The variables of a caller of YamlUtils, and those of the MCP server.
utilVars == <<files, blob, out, hist>>

serverVars == <<remote, pending>>

vars == <<files, blob, out, hist, remote, pending>>

\* ------------------------------------------------------------------ bounds

\* The largest number of documents in a mapping the caller starts from.
MaxFiles == 2

\* The largest number of mutation calls chained on one mapping.
MaxOps == 2

\* The largest number of projects in the account listProjects answers from.
MaxProjects == 2

\* ------------------------------------------------------- JavaScript values

Null == [t |-> "null"]

Str(s) == [t |-> "str", s |-> s]

Map(f) == [t |-> "map", f |-> f]

Lst(l) == [t |-> "seq", l |-> l]

\* {} : the object with no own property.
NoProps == [k \in {} |-> Null]

EmptyMap == Map(NoProps)

EmptyList == Lst(<<>>)

\* The value a call produces when it raises a TypeError
\* ("Cannot read properties of null/undefined").
TypeError == [t |-> "TypeError"]

IsError(v) == v = TypeError

\* ToBoolean: null, undefined and "" are falsy; objects and arrays are truthy.
Truthy(v) ==
    \/ v.t = "map"
    \/ v.t = "seq"
    \/ (v.t = "str" /\ v.s # "")

\* a || b
Or(a, b) == IF Truthy(a) THEN a ELSE b

\* v.k on a value that is not null: an own property, else undefined.
Get(v, k) == IF v.t = "map" /\ k \in DOMAIN v.f THEN v.f[k] ELSE Null

\* v?.k
OptGet(v, k) == IF v = Null THEN Null ELSE Get(v, k)

\* The own enumerable properties { ...v } copies: an object's fields, an
\* array's or a string's index properties, nothing for null / undefined.
Spread(v) ==
    CASE v.t = "map" -> v.f
      [] v.t = "seq" ->
            [k \in {ToString(i - 1) : i \in 1..Len(v.l)} |->
                v.l[CHOOSE i \in 1..Len(v.l) : ToString(i - 1) = k]]
      [] v.t = "str" ->
            [k \in {ToString(i - 1) : i \in 1..Len(v.s)} |->
                LET i == CHOOSE j \in 1..Len(v.s) : ToString(j - 1) = k
                IN  Str(SubSeq(v.s, i, i))]
      [] OTHER -> NoProps

\* { ...a, ...b } on property functions: b's properties win.
Assign(a, b) ==
    [k \in (DOMAIN a) \cup (DOMAIN b) |-> IF k \in DOMAIN b THEN b[k] ELSE a[k]]

\* ----------------------------------------------------------------- strings

\* s.includes(sub)
includes(s, sub) ==
    \E i \in 1..(Len(s) + 1) :
        /\ i + Len(sub) - 1 <= Len(s)
        /\ SubSeq(s, i, i + Len(sub) - 1) = sub

\* s.endsWith(suf)
endsWith(s, suf) ==
    /\ Len(suf) <= Len(s)
    /\ SubSeq(s, Len(s) - Len(suf) + 1, Len(s)) = suf

\* s.indexOf(sub) + 1, or 0 when sub does not occur in s.
indexOf(s, sub) ==
    IF includes(s, sub)
    THEN CHOOSE i \in 1..(Len(s) + 1) :
            /\ i + Len(sub) - 1 <= Len(s)
            /\ SubSeq(s, i, i + Len(sub) - 1) = sub
            /\ \A j \in 1..(i - 1) : SubSeq(s, j, j + Len(sub) - 1) # sub
    ELSE 0

\* s.replace(pat, ''): the FIRST occurrence of the string pattern is removed.
replaceFirst(s, pat) ==
    LET i == indexOf(s, pat)
    IN  IF i = 0 THEN s
        ELSE SubSeq(s, 1, i - 1) \o SubSeq(s, i + Len(pat), Len(s))

\* parts[parts.length - 1] of s.split('/'): the text after the last '/'.
lastPart(s) ==
    LET slashes == {i \in 1..Len(s) : SubSeq(s, i, i) = "/"}
        from == IF slashes = {} THEN 1
                ELSE (CHOOSE i \in slashes : \A j \in slashes : j <= i) + 1
    IN  SubSeq(s, from, Len(s))

extractNameFromFilename(filename) ==
    replaceFirst(replaceFirst(lastPart(filename), ".yaml"), ".yml")

\* ------------------------------------------------------------- objects

\* Object.keys(f) as a sequence.  JavaScript iterates in insertion order; the
\* model iterates in one fixed order per key set (no statement checked here
\* depends on which).
RECURSIVE KeySeq(_)
KeySeq(S) ==
    IF S = {} THEN <<>>
    ELSE LET k == CHOOSE x \in S : TRUE
         IN  <<k>> \o KeySeq(S \ {k})

ObjectKeys(f) == KeySeq(DOMAIN f)

\* files[filename]: undefined for a key the mapping does not hold.
Lookup(f, filename) == IF filename \in DOMAIN f THEN f[filename] ELSE Null

\* WithEntry merging doc's wrapper into a document already at the path,
\* instead of replacing that document.
WithEntryMerged(f, filename, doc) ==
    [p \in (DOMAIN f) \cup {filename} |->
        IF p # filename THEN f[p]
        ELSE IF filename \in DOMAIN f
             THEN Map([k \in DOMAIN doc.f |->
                          Map(Assign(Spread(OptGet(f[filename], k)), Spread(doc.f[k])))])
             ELSE doc]

\* { ...f, [filename]: doc }
WithEntry(f, filename, doc) ==
    [p \in (DOMAIN f) \cup {filename} |-> IF p = filename THEN doc ELSE f[p]]

\* ---------------------------------------------------------- js-yaml model

\* The texts a plain (unquoted) YAML scalar resolves to null for.
PlainNull == {"", "~", "null", "Null", "NULL"}

\* yaml.dump(content, {indent: 2, lineWidth: -1, noRefs: true}): the YAML
\* node written for a value.  A string that would read back as something else
\* is written quoted.
RECURSIVE yamlDump(_)
yamlDump(v) ==
    CASE v.t = "null" -> [k |-> "plain", text |-> "null"]
      [] v.t = "str" ->
            IF v.s \in PlainNull
            THEN [k |-> "quoted", text |-> v.s]
            ELSE [k |-> "plain", text |-> v.s]
      [] v.t = "map" ->
            [k |-> "mapping", items |-> [key \in DOMAIN v.f |-> yamlDump(v.f[key])]]
      [] v.t = "seq" ->
            [k |-> "sequence", items |-> [i \in 1..Len(v.l) |-> yamlDump(v.l[i])]]

\* yaml.load(content): the value a YAML node parses to.  A plain scalar is
\* resolved by its text, a quoted one is always a string.
RECURSIVE yamlLoad(_)
yamlLoad(n) ==
    CASE n.k = "plain" -> IF n.text \in PlainNull THEN Null ELSE Str(n.text)
      [] n.k = "quoted" -> Str(n.text)
      [] n.k = "mapping" -> Map([key \in DOMAIN n.items |-> yamlLoad(n.items[key])])
      [] n.k = "sequence" -> Lst([i \in 1..Len(n.items) |-> yamlLoad(n.items[i])])

\* Content yaml.load raises a YAMLException on.
Unparseable == [k |-> "unparseable"]

\* ----------------------------------------------------------- Bundle Codec

\* No bundle yet.
NoBlob == [t |-> "none"]

\* A string that is not the base64 of a zip archive: new AdmZip(buffer) raises.
Garbage == [t |-> "garbage"]

\* The error decodeProjectYaml raises.
DecodeError == [t |-> "Error", message |-> "Failed to decode project YAML"]

\* zip.addFile(filename, data): an entry whose name ends in '/' is a directory.
zipEntry(filename, data) == [isDirectory |-> endsWith(filename, "/"), data |-> data]

encodeProjectYaml(f) ==
    [t |-> "zip",
     entries |-> [filename \in DOMAIN f |-> zipEntry(filename, yamlDump(f[filename]))]]

\* The entries decodeProjectYaml reads: not a directory, name ending in .yaml.
decodedNames(b) ==
    {n \in DOMAIN b.entries : ~b.entries[n].isDirectory /\ endsWith(n, ".yaml")}

decodeProjectYaml(b) ==
    IF b.t # "zip" THEN DecodeError
    ELSE IF \E n \in decodedNames(b) : b.entries[n].data = Unparseable
         THEN DecodeError
         ELSE [n \in decodedNames(b) |-> yamlLoad(b.entries[n].data)]

\* ------------------------------------------------------- Entity Extractor

RECURSIVE componentsFrom(_, _)
componentsFrom(f, keys) ==
    IF keys = <<>> THEN <<>>
    ELSE LET filename == Head(keys)
             content == f[filename]
             def == OptGet(content, "componentDefinition")
             rest == componentsFrom(f, Tail(keys))
         IN  IF includes(filename, "components/") /\ Truthy(def)
             THEN <<[filename |-> filename,
                     name |-> Or(Get(def, "name"), Str(extractNameFromFilename(filename))),
                     definition |-> def,
                     properties |-> Or(Get(def, "properties"), EmptyMap),
                     widgets |-> Or(Get(def, "widgets"), EmptyList)]>> \o rest
             ELSE rest

extractComponents(f) == componentsFrom(f, ObjectKeys(f))

RECURSIVE pagesFrom(_, _)
pagesFrom(f, keys) ==
    IF keys = <<>> THEN <<>>
    ELSE LET filename == Head(keys)
             content == f[filename]
             def == OptGet(content, "pageDefinition")
             rest == pagesFrom(f, Tail(keys))
         IN  IF includes(filename, "pages/") /\ Truthy(def)
             THEN <<[filename |-> filename,
                     name |-> Or(Get(def, "name"), Str(extractNameFromFilename(filename))),
                     route |-> Get(def, "route"),
                     definition |-> def,
                     widgets |-> Or(Get(def, "widgets"), EmptyList),
                     actions |-> Or(Get(def, "actions"), EmptyList)]>> \o rest
             ELSE rest

extractPages(f) == pagesFrom(f, ObjectKeys(f))

\* Which of the three custom-code branches a document takes ("" for none).
customCodeKind(filename, content) ==
    IF ~includes(filename, "custom_code/") THEN ""
    ELSE IF includes(filename, "actions/") /\ Truthy(OptGet(content, "actionDefinition"))
         THEN "actions"
    ELSE IF includes(filename, "functions/") /\ Truthy(OptGet(content, "functionDefinition"))
         THEN "functions"
    ELSE IF includes(filename, "widgets/") /\ Truthy(OptGet(content, "widgetDefinition"))
         THEN "widgets"
    ELSE ""

\* The wrapper key of a custom-code branch.
customCodeWrapper(kind) ==
    CASE kind = "actions" -> "actionDefinition"
      [] kind = "functions" -> "functionDefinition"
      [] kind = "widgets" -> "widgetDefinition"

RECURSIVE customCodeFrom(_, _, _)
customCodeFrom(f, keys, kind) ==
    IF keys = <<>> THEN <<>>
    ELSE LET filename == Head(keys)
             content == f[filename]
             rest == customCodeFrom(f, Tail(keys), kind)
         IN  IF customCodeKind(filename, content) = kind
             THEN LET def == Get(content, customCodeWrapper(kind))
                  IN  IF kind = "widgets"
                      THEN <<[filename |-> filename,
                              name |-> Get(def, "name"),
                              definition |-> def,
                              code |-> Or(Get(def, "code"), Str("")),
                              properties |-> Or(Get(def, "properties"), EmptyList)]>>
                           \o rest
                      ELSE <<[filename |-> filename,
                              name |-> Get(def, "name"),
                              definition |-> def,
                              code |-> Or(Get(def, "code"), Str("")),
                              parameters |-> Or(Get(def, "parameters"), EmptyList)]>>
                           \o rest
             ELSE rest

extractCustomCode(f) ==
    [actions |-> customCodeFrom(f, ObjectKeys(f), "actions"),
     functions |-> customCodeFrom(f, ObjectKeys(f), "functions"),
     widgets |-> customCodeFrom(f, ObjectKeys(f), "widgets")]

\* The records of the single-file layout: one per entry of content.collections.
RECURSIVE nestedCollections(_, _, _)
nestedCollections(filename, props, names) ==
    IF names = <<>> THEN <<>>
    ELSE LET collectionName == Head(names)
             collectionData == props[collectionName]
         IN  <<[filename |-> filename,
                name |-> Str(collectionName),
                definition |-> collectionData,
                fields |-> Or(Get(collectionData, "fields"), EmptyList),
                indexes |-> Or(Get(collectionData, "indexes"), EmptyList)]>>
             \o nestedCollections(filename, props, Tail(names))

\* Which branch of extractDatabaseCollections a document takes.
collectionBranch(filename, content) ==
    IF includes(filename, "collections/")
       /\ Truthy(OptGet(content, "collectionDefinition"))
    THEN "perFile"
    ELSE IF Truthy(OptGet(content, "collections")) THEN "nested" ELSE "none"

RECURSIVE collectionsFrom(_, _)
collectionsFrom(f, keys) ==
    IF keys = <<>> THEN <<>>
    ELSE LET filename == Head(keys)
             content == f[filename]
             def == Get(content, "collectionDefinition")
             nested == Get(content, "collections")
             branch == collectionBranch(filename, content)
             here ==
                 CASE branch = "perFile" ->
                        <<[filename |-> filename,
                           name |-> Or(Get(def, "name"),
                                       Str(extractNameFromFilename(filename))),
                           definition |-> def,
                           fields |-> Or(Get(def, "fields"), EmptyList),
                           indexes |-> Or(Get(def, "indexes"), EmptyList)]>>
                   [] branch = "nested" ->
                        nestedCollections(filename, Spread(nested),
                                          KeySeq(DOMAIN Spread(nested)))
                   [] OTHER -> <<>>
         IN  here \o collectionsFrom(f, Tail(keys))

\* extractDatabaseCollections raises a TypeError: collectionData.fields is
\* read on a null entry of some content.collections.
collectionsThrow(f) ==
    \E filename \in DOMAIN f :
        /\ collectionBranch(filename, f[filename]) = "nested"
        /\ \E collectionName \in DOMAIN Spread(Get(f[filename], "collections")) :
               Spread(Get(f[filename], "collections"))[collectionName] = Null

\* The records returned; the call returns them only when ~collectionsThrow(f).
extractDatabaseCollections(f) == collectionsFrom(f, ObjectKeys(f))

extractAppState(f) ==
    LET appStateFile == Or(Lookup(f, "app-state.yaml"), Lookup(f, "appState.yaml"))
    IN  IF Truthy(appStateFile)
        THEN [variables |-> Or(Get(appStateFile, "variables"), EmptyList),
              dataTypes |-> Or(Get(appStateFile, "dataTypes"), EmptyList),
              constants |-> Or(Get(appStateFile, "constants"), EmptyList)]
        ELSE Null

\* --------------------------------------------------------- Entity Mutator

\* The test of updateComponent / updatePage on one entry: the path contains
\* the kind's segment, and the wrapper's name or the filename's name is the
\* identifier.
updateMatches(segment, wrapper, filename, content, name) ==
    /\ includes(filename, segment)
    /\ \/ OptGet(OptGet(content, wrapper), "name") = Str(name)
       \/ extractNameFromFilename(filename) = name

\* mergedDocument keeping the wrapper it replaces under the new wrapper's
\* key "previous", instead of spreading its fields.
mergedDocumentKeeping(wrapper, content, updates) ==
    Map(Assign(Spread(content),
               [k \in {wrapper} |->
                    Map(Assign([q \in {"previous"} |-> Get(content, wrapper)],
                               Spread(updates)))]))

\* { ...content, [wrapper]: { ...content[wrapper], ...updates } }
mergedDocument(wrapper, content, updates) ==
    Map(Assign(Spread(content),
               [k \in {wrapper} |->
                    Map(Assign(Spread(Get(content, wrapper)), Spread(updates)))]))

\* The body shared by updateComponent and updatePage.  Reading
\* content[wrapper] of a matched null document raises a TypeError.
updateEntity(segment, wrapper, f, name, updates) ==
    LET matched == {p \in DOMAIN f : updateMatches(segment, wrapper, p, f[p], name)}
    IN  IF \E p \in matched : f[p] = Null THEN TypeError
        ELSE [p \in DOMAIN f |->
                 IF p \in matched THEN mergedDocument(wrapper, f[p], updates)
                 ELSE f[p]]

updateComponent(f, componentName, updates) ==
    updateEntity("components/", "componentDefinition", f, componentName, updates)

updatePage(f, pageName, updates) ==
    updateEntity("pages/", "pageDefinition", f, pageName, updates)

\* { ...definition, name: <name> }: name written last.
namedDefinitionLast(name, definition) ==
    Map(Assign(Spread(definition), [k \in {"name"} |-> Str(name)]))

\* { name: <name>, ...definition }: the definition's fields are written after
\* name, so a name field of the definition replaces it.
namedDefinition(name, definition) ==
    Map(Assign([k \in {"name"} |-> Str(name)], Spread(definition)))

addCustomAction(f, actionName, actionDefinition) ==
    WithEntry(f, "custom_code/actions/" \o actionName \o ".yaml",
              Map([k \in {"actionDefinition"} |->
                      namedDefinition(actionName, actionDefinition)]))

addCustomFunction(f, functionName, functionDefinition) ==
    WithEntry(f, "custom_code/functions/" \o functionName \o ".yaml",
              Map([k \in {"functionDefinition"} |->
                      namedDefinition(functionName, functionDefinition)]))

addDatabaseCollection(f, collectionName, collectionDefinition) ==
    WithEntry(f, "collections/" \o collectionName \o ".yaml",
              Map([k \in {"collectionDefinition"} |->
                      namedDefinition(collectionName, collectionDefinition)]))

\* The mapping objects of one mutation call.  A call reads the caller's
\* object and writes only properties of the object it builds: the one
\* { ...files } or the returned object literal evaluates to.
Objects == {"files", "returned"}

\* The object the files parameter refers to.
callersObject == "files"

\* updatedFiles = files: no new object, the writes go to the caller's.
aliasOfFiles == callersObject

\* The object { ...files, ... } evaluates to: a new one.
spreadObject == "returned"

\* const updatedFiles = { ...files }: both objects hold files' entries.
objectsAfterSpread(f) == [o \in Objects |-> f]

\* The forEach of updateComponent / updatePage over the entries read before
\* the loop: each matched entry's merged document is assigned to
\* updatedFiles[filename]; a matched null document ends the loop with a
\* TypeError, the assignments made so far kept.
RECURSIVE updateWrites(_, _, _, _, _, _, _)
updateWrites(segment, wrapper, f, keys, name, updates, objects) ==
    IF keys = <<>> THEN objects
    ELSE LET filename == Head(keys)
             content == f[filename]
         IN  IF ~updateMatches(segment, wrapper, filename, content, name)
             THEN updateWrites(segment, wrapper, f, Tail(keys), name, updates, objects)
             ELSE IF content = Null THEN objects
             ELSE updateWrites(segment, wrapper, f, Tail(keys), name, updates,
                               [objects EXCEPT ![spreadObject] =
                                   WithEntry(@, filename,
                                             mergedDocument(wrapper, content, updates))])

\* The objects when updateComponent / updatePage returns or raises.
objectsAfterUpdate(segment, wrapper, f, name, updates) ==
    updateWrites(segment, wrapper, f, ObjectKeys(f), name, updates, objectsAfterSpread(f))

\* The objects when an add operation returns result:
\* return { ...files, [filename]: {...} }.
objectsAfterAdd(f, result) == [objectsAfterSpread(f) EXCEPT ![spreadObject] = result]

\* ------------------------------------------------------------------ inputs

\* The mappings a caller may hold: at most MaxFiles of the paths of docsAt,
\* each with one of the documents docsAt gives for it.
Mappings(docsAt) ==
    UNION {{f \in [S -> UNION {docsAt[p] : p \in S}] : \A p \in S : f[p] \in docsAt[p]} :
              S \in {T \in SUBSET DOMAIN docsAt : Cardinality(T) <= MaxFiles}}

\* Documents of the codec's callers: an empty document, a string scalar that
\* reads as null when unquoted, nested maps and sequences.
CodecPaths ==
    {"components/button.yaml", "components/legacy.yml", "app-state.yaml", "pages/home_page.yaml"}

CodecDocs ==
    [p \in CodecPaths |->
        {Null,
         Str("null"),
         Map([variables |-> Lst(<<Map([name |-> Str("currentUser"), default |-> Str("")])>>)]),
         Map([componentDefinition |-> Map([name |-> Str("Button"), widgets |-> EmptyList])])}]

\* Documents of the extractors' callers.
ButtonComponent ==
    Map([componentDefinition |->
            Map([name |-> Str("Button"), properties |-> Map([text |-> Str("string")])])])

UnnamedComponent == Map([componentDefinition |-> EmptyMap])

EmptyNameComponent == Map([componentDefinition |-> Map([name |-> Str("")])])

HomePage == Map([pageDefinition |-> Map([name |-> Str("HomePage"), route |-> Str("/home")])])

CardBoth ==
    Map([componentDefinition |-> Map([name |-> Str("Card")]),
         pageDefinition |-> Map([name |-> Str("CardPage")])])

UsersCollection ==
    Map([collectionDefinition |->
            Map([name |-> Str("users"), fields |-> Lst(<<Str("email")>>)])])

UnnamedCollection == Map([collectionDefinition |-> Map([fields |-> Lst(<<Str("title")>>)])])

NestedCollections ==
    Map([collections |->
            Map([users |-> Map([fields |-> Lst(<<Str("email")>>)]), posts |-> EmptyMap])])

NestedNullCollection == Map([collections |-> Map([posts |-> Null])])

UserState == Map([variables |-> Lst(<<Str("currentUser")>>)])

ThemeState == Map([variables |-> Lst(<<Str("theme")>>), constants |-> Lst(<<Str("API_URL")>>)])

StateWithCollections ==
    Map([variables |-> Lst(<<Str("currentUser")>>), collections |-> Map([logs |-> EmptyMap])])

ValidateAction ==
    Map([actionDefinition |-> Map([name |-> Str("validate"), code |-> Str("return true")])])

UnnamedAction == Map([actionDefinition |-> Map([code |-> Str("return true")])])

ExtractPaths ==
    {"components/button.yaml", "components/card.yml.yaml", "pages/subcomponents/card.yaml",
     "pages/home_page.yaml", "collections/users.yaml", "collections.yaml",
     "app-state.yaml", "appState.yaml", "custom_code/actions/validate.yaml"}

ExtractDocs ==
    [p \in ExtractPaths |->
        CASE p = "components/button.yaml" -> {ButtonComponent, UnnamedComponent, HomePage, Null}
          [] p = "components/card.yml.yaml" -> {UnnamedComponent, EmptyNameComponent}
          [] p = "pages/subcomponents/card.yaml" -> {CardBoth, ButtonComponent}
          [] p = "pages/home_page.yaml" -> {HomePage, ButtonComponent, Null}
          [] p = "collections/users.yaml" -> {UsersCollection, UnnamedCollection, Null}
          [] p = "collections.yaml" -> {NestedCollections, NestedNullCollection}
          [] p = "app-state.yaml" -> {UserState, StateWithCollections, Null}
          [] p = "appState.yaml" -> {ThemeState, Null}
          [] p = "custom_code/actions/validate.yaml" -> {ValidateAction, UnnamedAction}]

\* ------------------------------------------------------------------- state
\* files  the Document Mapping the caller holds
\* blob   the encoded bundle, NoBlob before encodeProjectYaml is called
\* out    the calls made on files so far: operation name -> [threw, result]
\* hist   the mutation calls made so far, oldest first

\* No call made yet.
NoOut == [op \in {} |-> Null]

Done(op) == op \in DOMAIN out

\* out with the outcome of one more call.
Record(op, threw, result) ==
    [o \in (DOMAIN out) \cup {op} |->
        IF o = op THEN [threw |-> threw, result |-> result] ELSE out[o]]

\* ------------------------------------------------------ codec: the actions

InitCodec ==
    /\ files \in Mappings(CodecDocs)
    /\ blob = NoBlob
    /\ out = NoOut
    /\ hist = <<>>
    /\ remote = NoProps
    /\ pending = NoProps

\* const encoded = YamlUtils.encodeProjectYaml(files)
Encode ==
    /\ blob = NoBlob
    /\ blob' = encodeProjectYaml(files)
    /\ UNCHANGED <<files, out, hist>>
    /\ UNCHANGED serverVars

\* const decoded = YamlUtils.decodeProjectYaml(encoded)
Decode ==
    /\ blob # NoBlob
    /\ ~Done("decodeProjectYaml")
    /\ LET decoded == decodeProjectYaml(blob)
       IN  out' = Record("decodeProjectYaml", decoded = DecodeError, decoded)
    /\ UNCHANGED <<files, blob, hist>>
    /\ UNCHANGED serverVars

NextCodec == Encode \/ Decode

SpecCodec == InitCodec /\ [][NextCodec]_vars

\* ------------------------------------------- codec: a bundle from the remote

\* The entry names of the archives the remote service may answer with: two
\* .yaml documents, a .yml document and a directory.
ArchiveNames ==
    {"app-state.yaml", "pages/home_page.yaml", "components/legacy.yml", "components/"}

\* The content of each entry: YAML text of a document, of an empty document
\* and of a quoted scalar, or text yaml.load cannot parse; a directory entry
\* has none.
ArchiveData ==
    [n \in ArchiveNames |->
        IF endsWith(n, "/") THEN {[k |-> "plain", text |-> ""]}
        ELSE {yamlDump(UserState), yamlDump(Null), yamlDump(Str("null")), Unparseable}]

\* project_yaml_bytes: what downloadProjectYAML hands to decodeProjectYaml.
ProjectYamlBytes ==
    {Garbage} \cup
    {[t |-> "zip", entries |-> [n \in DOMAIN m |-> zipEntry(n, m[n])]] :
        m \in Mappings(ArchiveData)}

InitReceive ==
    /\ files = NoProps
    /\ blob = NoBlob
    /\ out = NoOut
    /\ hist = <<>>
    /\ remote = NoProps
    /\ pending = NoProps

\* const yaml = await flutterflowAPI.downloadProjectYAML(projectId)
Receive ==
    /\ blob = NoBlob
    /\ blob' \in ProjectYamlBytes
    /\ UNCHANGED <<files, out, hist>>
    /\ UNCHANGED serverVars

NextReceive == Receive \/ Decode

SpecReceive == InitReceive /\ [][NextReceive]_vars

\* -------------------------------------------------- extractors: the actions

InitExtract ==
    /\ files \in Mappings(ExtractDocs)
    /\ blob = NoBlob
    /\ out = NoOut
    /\ hist = <<>>
    /\ remote = NoProps
    /\ pending = NoProps

ExtractComponents ==
    /\ ~Done("extractComponents")
    /\ out' = Record("extractComponents", FALSE, extractComponents(files))
    /\ UNCHANGED <<files, blob, hist>>
    /\ UNCHANGED serverVars

ExtractPages ==
    /\ ~Done("extractPages")
    /\ out' = Record("extractPages", FALSE, extractPages(files))
    /\ UNCHANGED <<files, blob, hist>>
    /\ UNCHANGED serverVars

ExtractCustomCode ==
    /\ ~Done("extractCustomCode")
    /\ out' = Record("extractCustomCode", FALSE, extractCustomCode(files))
    /\ UNCHANGED <<files, blob, hist>>
    /\ UNCHANGED serverVars

ExtractDatabaseCollections ==
    /\ ~Done("extractDatabaseCollections")
    /\ out' = Record("extractDatabaseCollections", collectionsThrow(files),
                     IF collectionsThrow(files) THEN <<>>
                     ELSE extractDatabaseCollections(files))
    /\ UNCHANGED <<files, blob, hist>>
    /\ UNCHANGED serverVars

ExtractAppState ==
    /\ ~Done("extractAppState")
    /\ out' = Record("extractAppState", FALSE, extractAppState(files))
    /\ UNCHANGED <<files, blob, hist>>
    /\ UNCHANGED serverVars

NextExtract ==
    \/ ExtractComponents
    \/ ExtractPages
    \/ ExtractCustomCode
    \/ ExtractDatabaseCollections
    \/ ExtractAppState

SpecExtract == InitExtract /\ [][NextExtract]_vars

\* ---------------------------------------------------- mutators: the inputs

StyledButton ==
    Map([componentDefinition |->
            Map([name |-> Str("Button"), color |-> Str("red"),
                 properties |-> Map([text |-> Str("string")])]),
         version |-> Str("1")])

\* A component named Button kept in a file named foo.
ButtonInFoo == Map([componentDefinition |-> Map([name |-> Str("Button")])])

\* A component named foo kept in a file named button.
FooInButton == Map([componentDefinition |-> Map([name |-> Str("foo")])])

\* A document with no wrapper.
Bare == Map([version |-> Str("1")])

FooBoth ==
    Map([componentDefinition |-> Map([color |-> Str("red")]),
         pageDefinition |-> Map([route |-> Str("/foo")])])

HomeInFoo == Map([pageDefinition |-> Map([name |-> Str("Home"), route |-> Str("/home")])])

LegacySync == Map([actionDefinition |-> Map([name |-> Str("sync"), legacy |-> Str("1")])])

MutatePaths ==
    {"components/button.yaml", "components/foo.yaml", "pages/subcomponents/foo.yaml",
     "pages/foo.yaml", "custom_code/actions/sync.yaml", "app-state.yaml"}

MutateDocs ==
    [p \in MutatePaths |->
        CASE p = "components/button.yaml" -> {StyledButton, FooInButton}
          [] p = "components/foo.yaml" -> {ButtonInFoo, Bare, Null}
          [] p = "pages/subcomponents/foo.yaml" -> {FooBoth}
          [] p = "pages/foo.yaml" -> {HomeInFoo, Null}
          [] p = "custom_code/actions/sync.yaml" -> {LegacySync}
          [] p = "app-state.yaml" -> {UserState}]

\* componentName / pageName arguments.
Identifiers == {"Button", "foo"}

\* updates arguments: a new field; a changed name and a nested value.
Patches ==
    {Map([color |-> Str("#fff")]),
     Map([name |-> Str("Renamed"), properties |-> Map([color |-> Str("color")])])}

\* actionName / functionName / collectionName arguments.
Names == {"sync"}

\* definition arguments: without and with a name field of their own.
Definitions ==
    {Map([code |-> Str("return 1")]),
     Map([name |-> Str("other"), code |-> Str("return 2"), parameters |-> EmptyList])}

\* -------------------------------------------------- mutators: the actions

InitMutate ==
    /\ files \in Mappings(MutateDocs)
    /\ blob = NoBlob
    /\ out = NoOut
    /\ hist = <<>>
    /\ remote = NoProps
    /\ pending = NoProps

\* One mutation call on files: the caller goes on with the mapping returned,
\* or keeps its own when the call raised.  input is what the object the
\* caller passed holds when the call ends.
Call(op, name, arg, result, objects) ==
    /\ Len(hist) < MaxOps
    /\ hist' = Append(hist, [op |-> op, name |-> name, arg |-> arg, before |-> files,
                             threw |-> IsError(result),
                             after |-> IF IsError(result) THEN files ELSE result,
                             input |-> objects[callersObject]])
    /\ files' = IF IsError(result) THEN files ELSE result
    /\ UNCHANGED <<blob, out>>
    /\ UNCHANGED serverVars

UpdateComponent ==
    \E componentName \in Identifiers, updates \in Patches :
        Call("updateComponent", componentName, updates,
             updateComponent(files, componentName, updates),
             objectsAfterUpdate("components/", "componentDefinition", files,
                                componentName, updates))

UpdatePage ==
    \E pageName \in Identifiers, updates \in Patches :
        Call("updatePage", pageName, updates, updatePage(files, pageName, updates),
             objectsAfterUpdate("pages/", "pageDefinition", files, pageName, updates))

AddCustomAction ==
    \E actionName \in Names, actionDefinition \in Definitions :
        Call("addCustomAction", actionName, actionDefinition,
             addCustomAction(files, actionName, actionDefinition),
             objectsAfterAdd(files, addCustomAction(files, actionName, actionDefinition)))

AddCustomFunction ==
    \E functionName \in Names, functionDefinition \in Definitions :
        Call("addCustomFunction", functionName, functionDefinition,
             addCustomFunction(files, functionName, functionDefinition),
             objectsAfterAdd(files,
                             addCustomFunction(files, functionName, functionDefinition)))

AddDatabaseCollection ==
    \E collectionName \in Names, collectionDefinition \in Definitions :
        Call("addDatabaseCollection", collectionName, collectionDefinition,
             addDatabaseCollection(files, collectionName, collectionDefinition),
             objectsAfterAdd(files,
                             addDatabaseCollection(files, collectionName,
                                                   collectionDefinition)))

NextMutate ==
    \/ UpdateComponent
    \/ UpdatePage
    \/ AddCustomAction
    \/ AddCustomFunction
    \/ AddDatabaseCollection

SpecMutate == InitMutate /\ [][NextMutate]_vars

\* --------------------------------------- mutators: add on extractable files

FormatFunction ==
    Map([functionDefinition |-> Map([name |-> Str("format"), code |-> Str("return d")])])

\* Mappings with custom code and collections in them, some at the paths the
\* add operations write.
AddPaths ==
    {"custom_code/actions/sync.yaml", "custom_code/actions/validate.yaml",
     "custom_code/functions/sync.yaml", "custom_code/functions/format.yaml",
     "collections/sync.yaml", "collections/users.yaml", "collections.yaml",
     "app-state.yaml"}

AddDocs ==
    [p \in AddPaths |->
        CASE p = "custom_code/actions/sync.yaml" -> {LegacySync}
          [] p = "custom_code/actions/validate.yaml" -> {ValidateAction, UnnamedAction}
          [] p = "custom_code/functions/sync.yaml" -> {FormatFunction}
          [] p = "custom_code/functions/format.yaml" -> {FormatFunction}
          [] p = "collections/sync.yaml" -> {UnnamedCollection}
          [] p = "collections/users.yaml" -> {UsersCollection}
          [] p = "collections.yaml" -> {NestedCollections}
          [] p = "app-state.yaml" -> {StateWithCollections}]

InitAdd ==
    /\ files \in Mappings(AddDocs)
    /\ blob = NoBlob
    /\ out = NoOut
    /\ hist = <<>>
    /\ remote = NoProps
    /\ pending = NoProps

NextAdd ==
    \/ AddCustomAction
    \/ AddCustomFunction
    \/ AddDatabaseCollection

SpecAdd == InitAdd /\ [][NextAdd]_vars

\* ------------------------------------------------- FlutterFlowAPI (client)

\* The projects of the account the server works on, in the order
\* listProjects returns them.
Projects ==
    <<[projectId |-> "p1", name |-> "MyApp"], [projectId |-> "p2", name |-> "Shop"]>>

UpperCase == "ABCDEFGHIJKLMNOPQRSTUVWXYZ"

LowerCase == "abcdefghijklmnopqrstuvwxyz"

\* A string compared as it was typed.
asTyped(s) == s

\* String.prototype.toLowerCase on ASCII text.
RECURSIVE toLowerCase(_)
toLowerCase(s) ==
    IF s = "" THEN ""
    ELSE LET c == SubSeq(s, 1, 1)
             at == {i \in 1..Len(UpperCase) : SubSeq(UpperCase, i, i) = c}
         IN  (IF at = {} THEN c ELSE LET i == CHOOSE j \in at : TRUE
                                     IN  SubSeq(LowerCase, i, i))
             \o toLowerCase(SubSeq(s, 2, Len(s)))

\* A call that returned value / that threw new Error(message).
Returned(value) == [ok |-> TRUE, value |-> value, message |-> ""]

Thrown(message) == [ok |-> FALSE, value |-> Null, message |-> message]

\* The error a request of the HTTP client ends in when the remote answers
\* with status, statusText and the body data.
AxiosError(status, statusText, data) ==
    [isAxiosError |-> TRUE,
     message |-> "Request failed with status code " \o status,
     response |-> Map([status |-> Str(status), statusText |-> Str(statusText),
                       data |-> data])]

\* The error of a request that got no response.
TimeoutError ==
    [isAxiosError |-> TRUE, message |-> "timeout of 30000ms exceeded", response |-> Null]

\* getErrorMessage(error): the body's message, else the body's error, else
\* status and status text, else the error's own message.
getErrorMessage(error) ==
    LET data == OptGet(error.response, "data")
    IN  IF error.isAxiosError /\ Truthy(OptGet(data, "message"))
        THEN OptGet(data, "message").s
        ELSE IF error.isAxiosError /\ Truthy(OptGet(data, "error"))
        THEN OptGet(data, "error").s
        ELSE IF error.isAxiosError /\ Truthy(OptGet(error.response, "statusText"))
        THEN Get(error.response, "status").s \o ": "
                 \o Get(error.response, "statusText").s
        ELSE error.message

\* getErrorMessage(error) of an axios error whose response has no body
\* message: status and status text.
NotFound == getErrorMessage(AxiosError("404", "Not Found", Null))

ServerError == getErrorMessage(AxiosError("500", "Internal Server Error", Str("")))

\* The answers of the remote service to one request: served, or an HTTP
\* error.
Answers == {"ok", ServerError}

\* The remote answers a request about a project it does not hold with 404.
answerFor(held, projectId, answer) ==
    IF projectId.t = "str" /\ projectId.s \in DOMAIN held THEN answer ELSE NotFound

\* listProjects(): parsed.entries of the account the remote serves.
listProjects(entries, answer) ==
    IF answer = "ok" THEN Returned(entries)
    ELSE Thrown("Failed to list projects: " \o answer)

\* projects.find(project => project.name.toLowerCase() ===
\* projectName.toLowerCase()) || null
findByName(projects, projectName) ==
    LET hits == {i \in 1..Len(projects) :
                    toLowerCase(projects[i].name) = toLowerCase(projectName)}
    IN  IF hits = {} THEN Null
        ELSE projects[CHOOSE i \in hits : \A j \in hits : i <= j]

getProjectByName(entries, projectName, answer) ==
    LET listed == listProjects(entries, answer)
    IN  IF listed.ok THEN Returned(findByName(listed.value, projectName))
        ELSE Thrown("Failed to find project by name: " \o listed.message)

getProjectIdByName(entries, projectName, answer) ==
    LET project == getProjectByName(entries, projectName, answer)
    IN  IF ~project.ok
        THEN Thrown("Failed to get project ID by name: " \o project.message)
        ELSE IF project.value = Null THEN Returned(Null)
        ELSE Returned(Str(project.value.projectId))

\* getProjectFiles(projectId): the file names of the project's bundle.
getProjectFiles(held, projectId, answer) ==
    LET a == answerFor(held, projectId, answer)
    IN  IF a # "ok" THEN Thrown("Failed to get project files: " \o a)
        ELSE Returned(IF held[projectId.s].t = "zip"
                      THEN DOMAIN held[projectId.s].entries ELSE {})

\* downloadProjectYAML(projectId): project_yaml_bytes of the project.
downloadProjectYAML(held, projectId, answer) ==
    LET a == answerFor(held, projectId, answer)
    IN  IF a = "ok" THEN Returned(held[projectId.s])
        ELSE Thrown("Failed to download project YAML: " \o a)

\* validateProjectYAML(projectId, yamlContent): valid when the remote answers
\* success, which it does for an archive.
validateProjectYAML(held, projectId, yamlContent, answer) ==
    LET a == answerFor(held, projectId, answer)
    IN  IF a # "ok" THEN Thrown("Failed to validate project YAML: " \o a)
        ELSE Returned([valid |-> yamlContent.t = "zip"])

\* updateProjectYAML(projectId, yamlContent, commitMessage): response.data.
updateProjectYAML(held, projectId, yamlContent, answer) ==
    LET a == answerFor(held, projectId, answer)
    IN  IF a = "ok" THEN Returned([success |-> TRUE])
        ELSE Thrown("Failed to update project YAML: " \o a)

\* What the remote holds after it served an update request.
heldAfterUpdate(held, projectId, yamlContent) ==
    [held EXCEPT ![projectId.s] = yamlContent]

\* ---------------------------------------------- MCP server: tool handlers

Tools ==
    {"list_projects", "get_project_files", "download_project_yaml", "get_components",
     "get_project_by_name", "get_pages", "get_custom_code", "get_database_collections",
     "get_app_state", "get_project_summary", "get_file_list_summary", "diagnose_project",
     "update_component", "update_page", "add_custom_action", "add_custom_function",
     "add_database_collection", "validate_project_yaml", "update_project_yaml"}

\* The tools whose handler answers from getProjectFiles inside a try of its
\* own.
SummaryTools == {"get_project_summary", "get_file_list_summary", "diagnose_project"}

\* The tools whose handler calls resolveProjectId(args).
ResolvingTools == SummaryTools \cup {"get_components", "get_pages"}

ExtractTools ==
    {"get_components", "get_pages", "get_custom_code", "get_database_collections",
     "get_app_state"}

MutationTools ==
    {"update_component", "update_page", "add_custom_action", "add_custom_function",
     "add_database_collection"}

\* The text of a tool result: JSON.stringify(value, null, 2), or a string.
Json(value) == [t |-> "json", value |-> value]

Text(s) == [t |-> "text", s |-> s]

\* return { content: [{ type: 'text', text }] }: a result without isError.
toolResult(text) == [isError |-> FALSE, text |-> text]

\* The catch of the request handler: the error's message after 'Error: ',
\* and isError: true.
caught(message) == [isError |-> TRUE, text |-> Text("Error: " \o message)]

\* The catch inside a summary tool: `${prefix}: ${error}`, where the error
\* prints as 'Error: ' and its message; no isError.
summaryCaught(tool, message) ==
    toolResult(Text((CASE tool = "get_project_summary" -> "Error getting project summary: "
                       [] tool = "get_file_list_summary" -> "Error getting file list: "
                       [] tool = "diagnose_project" -> "Error diagnosing project: ")
                    \o "Error: " \o message))

\* The message of the TypeError a read on null raises.
TypeErrorMessage == "Cannot read properties of null"

NoResult == [isError |-> FALSE, text |-> Text("")]

\* A tool call: the request, the API method it awaits (pc), its locals, the
\* API requests it has made, whether an error was raised in it, its result.
Idle ==
    [tool |-> "", args |-> EmptyMap, pc |-> "idle", projectId |-> Null, yaml |-> NoBlob,
     trace |-> <<>>, failed |-> FALSE, result |-> NoResult]

\* The call awaits the API method api.
awaiting(call, api) == [call EXCEPT !.pc = api]

\* The handler returns result.
returns(call, result) == [call EXCEPT !.pc = "done", !.result = result]

\* An error was raised in the handler, and the handler returns result.
fails(call, result) == [call EXCEPT !.pc = "done", !.result = result, !.failed = TRUE]

\* The call has made one more API request.
requested(call, api, projectId, yaml, ok) ==
    [call EXCEPT !.trace = Append(@, [api |-> api, projectId |-> projectId,
                                      yaml |-> yaml, ok |-> ok])]

\* A handler that submits before anything else.
submitFirst(tool) == "updateProjectYAML"

\* The API method a handler awaits first once it has its project id.
firstRequest(tool) ==
    CASE tool \in SummaryTools \cup {"get_project_files"} -> "getProjectFiles"
      [] tool = "validate_project_yaml" -> "validateProjectYAML"
      [] tool = "update_project_yaml" -> "updateProjectYAML"
      [] OTHER -> "downloadProjectYAML"

\* The handler from its entry to its first await.  resolveProjectId returns
\* args.projectId when truthy, awaits getProjectIdByName for a projectName,
\* and throws otherwise; the other handlers take projectId from args as it is.
started(tool, args) ==
    LET call == [Idle EXCEPT !.tool = tool, !.args = args]
    IN  CASE tool = "list_projects" -> awaiting(call, "listProjects")
          [] tool = "get_project_by_name" -> awaiting(call, "getProjectByName")
          [] tool \in ResolvingTools ->
                IF Truthy(Get(args, "projectId"))
                THEN awaiting([call EXCEPT !.projectId = Get(args, "projectId")],
                              firstRequest(tool))
                ELSE IF Truthy(Get(args, "projectName"))
                     THEN awaiting(call, "getProjectIdByName")
                     ELSE fails(call, caught("Either projectId or projectName must be provided"))
          [] tool \in Tools \ (ResolvingTools \cup {"list_projects", "get_project_by_name"}) ->
                awaiting([call EXCEPT !.projectId = Get(args, "projectId"),
                                      !.yaml = IF "yamlContent" \in DOMAIN args.f
                                               THEN args.f.yamlContent ELSE NoBlob],
                         firstRequest(tool))
          [] OTHER -> fails(call, caught("Unknown tool: " \o tool))

\* The extract operation of a get tool on decoded files, as a call outcome.
extracted(tool, f) ==
    CASE tool = "get_components" -> Returned(extractComponents(f))
      [] tool = "get_pages" -> Returned(extractPages(f))
      [] tool = "get_custom_code" -> Returned(extractCustomCode(f))
      [] tool = "get_database_collections" ->
            IF collectionsThrow(f) THEN Thrown(TypeErrorMessage)
            ELSE Returned(extractDatabaseCollections(f))
      [] tool = "get_app_state" -> Returned(extractAppState(f))

\* The YamlUtils operation of a mutation tool on decoded files.
mutated(tool, f, args) ==
    CASE tool = "update_component" ->
            updateComponent(f, Get(args, "componentName").s, Get(args, "updates"))
      [] tool = "update_page" -> updatePage(f, Get(args, "pageName").s, Get(args, "updates"))
      [] tool = "add_custom_action" ->
            addCustomAction(f, Get(args, "actionName").s, Get(args, "actionDefinition"))
      [] tool = "add_custom_function" ->
            addCustomFunction(f, Get(args, "functionName").s, Get(args, "functionDefinition"))
      [] tool = "add_database_collection" ->
            addDatabaseCollection(f, Get(args, "collectionName").s,
                                  Get(args, "collectionDefinition"))

\* -------------------------------------------------- MCP server: the inputs

\* The documents of the two projects the remote holds at the start.
AppFiles ==
    [filename \in {"components/button.yaml", "pages/foo.yaml", "app-state.yaml"} |->
        CASE filename = "components/button.yaml" -> ButtonComponent
          [] filename = "pages/foo.yaml" -> Null
          [] filename = "app-state.yaml" -> UserState]

ShopFiles ==
    [filename \in {"pages/home_page.yaml", "collections.yaml"} |->
        IF filename = "pages/home_page.yaml" THEN HomePage ELSE NestedNullCollection]

\* The project arguments of a request: an id, a name in another letter case,
\* a name no project has, neither.
ProjectArgs ==
    {Map([projectId |-> Str("p1")]), Map([projectName |-> Str("myapp")]),
     Map([projectName |-> Str("Nope")]), EmptyMap}

\* The other arguments of a request, by tool.
ToolArgs(tool) ==
    CASE tool = "update_component" ->
            {Map([componentName |-> Str("Button"), updates |-> Map([color |-> Str("#fff")])])}
      [] tool = "update_page" ->
            {Map([pageName |-> Str("foo"), updates |-> Map([color |-> Str("#fff")])])}
      [] tool = "add_custom_action" ->
            {Map([actionName |-> Str("sync"),
                  actionDefinition |-> Map([code |-> Str("return 1")])])}
      [] tool = "add_custom_function" ->
            {Map([functionName |-> Str("sync"),
                  functionDefinition |-> Map([code |-> Str("return 1")])])}
      [] tool = "add_database_collection" ->
            {Map([collectionName |-> Str("users"),
                  collectionDefinition |-> Map([fields |-> EmptyList])])}
      [] tool \in {"validate_project_yaml", "update_project_yaml"} ->
            {Map([yamlContent |-> encodeProjectYaml(ShopFiles)]),
             Map([yamlContent |-> Garbage])}
      [] OTHER -> {EmptyMap}

\* The requests a client sends: a registered tool or an unknown one, with a
\* project argument and the tool's other arguments.
Requests ==
    UNION {{[tool |-> tool, args |-> Map(Assign(project.f, other.f))] :
               project \in ProjectArgs, other \in ToolArgs(tool)} :
              tool \in Tools \cup {"no_such_tool"}}

\* -------------------------------------------------- MCP server: the actions

\* The tool calls in flight at a time: the client of this specification
\* awaits each result before its next request.
Callers == {"client"}

InitServer ==
    /\ files = NoProps
    /\ blob = NoBlob
    /\ out = NoOut
    /\ hist = <<>>
    /\ remote = [entries |-> Projects,
                 yaml |-> [p1 |-> encodeProjectYaml(AppFiles),
                           p2 |-> encodeProjectYaml(ShopFiles)]]
    /\ pending = [c \in Callers |-> Idle]

\* The call c goes on as call, the remote as it is.
Continue(c, call) ==
    /\ pending' = [pending EXCEPT ![c] = call]
    /\ UNCHANGED remote

\* server.setRequestHandler(CallToolRequestSchema, ...): a request arrives
\* and its handler runs to its first await.
CallTool(c) ==
    /\ pending[c].pc \in {"idle", "done"}
    /\ \E request \in Requests : Continue(c, started(request.tool, request.args))
    /\ UNCHANGED utilVars

\* resolveProjectId: await flutterflowAPI.getProjectIdByName(args.projectName)
\* answers; no project of that name is an error, else the handler goes on to
\* its first request with the id found.
GetProjectIdByName(c) ==
    /\ pending[c].pc = "getProjectIdByName"
    /\ \E answer \in Answers :
           LET projectName == Get(pending[c].args, "projectName").s
               projectId == getProjectIdByName(remote.entries, projectName, answer)
               call == requested(pending[c], "listProjects", Null, NoBlob, answer = "ok")
           IN  Continue(c,
                   IF ~projectId.ok THEN fails(call, caught(projectId.message))
                   ELSE IF ~Truthy(projectId.value)
                        THEN fails(call, caught("Project not found: " \o projectName))
                   ELSE awaiting([call EXCEPT !.projectId = projectId.value],
                                 firstRequest(call.tool)))
    /\ UNCHANGED utilVars

\* case 'list_projects'
ListProjects(c) ==
    /\ pending[c].pc = "listProjects"
    /\ \E answer \in Answers :
           LET projects == listProjects(remote.entries, answer)
               call == requested(pending[c], "listProjects", Null, NoBlob, projects.ok)
           IN  Continue(c, IF projects.ok THEN returns(call, toolResult(Json(projects.value)))
                           ELSE fails(call, caught(projects.message)))
    /\ UNCHANGED utilVars

\* case 'get_project_by_name': a request without projectName raises a
\* TypeError in the find callback, which getProjectByName wraps.
GetProjectByName(c) ==
    /\ pending[c].pc = "getProjectByName"
    /\ \E answer \in Answers :
           LET projectName == Get(pending[c].args, "projectName")
               project ==
                   IF projectName.t = "str" \/ answer # "ok"
                   THEN getProjectByName(remote.entries,
                                         IF projectName.t = "str" THEN projectName.s ELSE "",
                                         answer)
                   ELSE Thrown("Failed to find project by name: " \o TypeErrorMessage)
               call == requested(pending[c], "listProjects", Null, NoBlob, answer = "ok")
           IN  Continue(c,
                   IF ~project.ok THEN fails(call, caught(project.message))
                   ELSE IF project.value = Null
                        THEN fails(call, caught("Project not found: " \o projectName.s))
                   ELSE returns(call, toolResult(Json(project.value))))
    /\ UNCHANGED utilVars

\* await flutterflowAPI.getProjectFiles(projectId) answers: get_project_files
\* passes an error on to the handler's catch, a summary tool catches it itself.
GetProjectFiles(c) ==
    /\ pending[c].pc = "getProjectFiles"
    /\ \E answer \in Answers :
           LET projectFiles == getProjectFiles(remote.yaml, pending[c].projectId, answer)
               call == requested(pending[c], "getProjectFiles", pending[c].projectId,
                                 NoBlob, projectFiles.ok)
           IN  Continue(c,
                   IF projectFiles.ok THEN returns(call, toolResult(Json(projectFiles.value)))
                   ELSE IF call.tool \in SummaryTools
                        THEN fails(call, summaryCaught(call.tool, projectFiles.message))
                   ELSE fails(call, caught(projectFiles.message)))
    /\ UNCHANGED utilVars

\* await flutterflowAPI.downloadProjectYAML(projectId) answers, and the
\* handler runs on: download_project_yaml returns the bundle; a get tool
\* decodes and extracts; a mutation tool decodes, mutates, encodes and awaits
\* updateProjectYAML.
DownloadProjectYAML(c) ==
    /\ pending[c].pc = "downloadProjectYAML"
    /\ \E answer \in Answers :
           LET yaml == downloadProjectYAML(remote.yaml, pending[c].projectId, answer)
               call == requested(pending[c], "downloadProjectYAML", pending[c].projectId,
                                 NoBlob, yaml.ok)
               decoded == decodeProjectYaml(yaml.value)
               result == extracted(call.tool, decoded)
               updatedFiles == mutated(call.tool, decoded, call.args)
           IN  Continue(c,
                   IF ~yaml.ok THEN fails(call, caught(yaml.message))
                   ELSE IF call.tool = "download_project_yaml"
                        THEN returns(call, toolResult(yaml.value))
                   ELSE IF decoded = DecodeError
                        THEN fails(call, caught(DecodeError.message))
                   ELSE IF call.tool \in ExtractTools
                        THEN IF result.ok THEN returns(call, toolResult(Json(result.value)))
                             ELSE fails(call, caught(result.message))
                   ELSE IF IsError(updatedFiles)
                        THEN fails(call, caught(TypeErrorMessage))
                   ELSE awaiting([call EXCEPT !.yaml = encodeProjectYaml(updatedFiles)],
                                 "updateProjectYAML"))
    /\ UNCHANGED utilVars

\* case 'validate_project_yaml'
ValidateProjectYAML(c) ==
    /\ pending[c].pc = "validateProjectYAML"
    /\ \E answer \in Answers :
           LET validation == validateProjectYAML(remote.yaml, pending[c].projectId,
                                                 pending[c].yaml, answer)
               call == requested(pending[c], "validateProjectYAML", pending[c].projectId,
                                 pending[c].yaml, validation.ok)
           IN  Continue(c, IF validation.ok
                           THEN returns(call, toolResult(Json(validation.value)))
                           ELSE fails(call, caught(validation.message)))
    /\ UNCHANGED utilVars

\* await flutterflowAPI.updateProjectYAML(projectId, yaml, commitMessage)
\* answers: the remote holds the bundle submitted when it served the request.
UpdateProjectYAML(c) ==
    /\ pending[c].pc = "updateProjectYAML"
    /\ \E answer \in Answers :
           LET result == updateProjectYAML(remote.yaml, pending[c].projectId, pending[c].yaml,
                                           answer)
               call == requested(pending[c], "updateProjectYAML", pending[c].projectId,
                                 pending[c].yaml, result.ok)
           IN  /\ pending' = [pending EXCEPT ![c] =
                                 IF result.ok THEN returns(call, toolResult(Json(result.value)))
                                 ELSE fails(call, caught(result.message))]
               /\ remote' = IF result.ok
                            THEN [remote EXCEPT !.yaml =
                                     heldAfterUpdate(@, pending[c].projectId, pending[c].yaml)]
                            ELSE remote
    /\ UNCHANGED utilVars

NextServer ==
    \/ \E c \in DOMAIN pending : CallTool(c)
    \/ \E c \in DOMAIN pending : GetProjectIdByName(c)
    \/ \E c \in DOMAIN pending : ListProjects(c)
    \/ \E c \in DOMAIN pending : GetProjectByName(c)
    \/ \E c \in DOMAIN pending : GetProjectFiles(c)
    \/ \E c \in DOMAIN pending : DownloadProjectYAML(c)
    \/ \E c \in DOMAIN pending : ValidateProjectYAML(c)
    \/ \E c \in DOMAIN pending : UpdateProjectYAML(c)

SpecServer == InitServer /\ [][NextServer]_vars

\* ---------------------------------------- MCP server: calls in flight together

\* Two clients' requests, or two requests of one client that does not await
\* the first result: the handler of one runs while the other awaits the
\* remote.
ConcurrentCallers == {"first", "second"}

\* The mutation requests on the project p1.
MutationRequests ==
    UNION {{[tool |-> tool, args |-> Map(Assign([projectId |-> Str("p1")], other.f))] :
               other \in ToolArgs(tool)} :
              tool \in MutationTools}

InitConcurrent ==
    /\ files = NoProps
    /\ blob = NoBlob
    /\ out = NoOut
    /\ hist = <<>>
    /\ remote = [entries |-> Projects,
                 yaml |-> [p1 |-> encodeProjectYaml(AppFiles),
                           p2 |-> encodeProjectYaml(ShopFiles)]]
    /\ pending = [c \in ConcurrentCallers |-> Idle]

\* The one mutation request of caller c arrives, and its handler runs to its
\* first await.
CallMutationTool(c) ==
    /\ pending[c].pc = "idle"
    /\ \E request \in MutationRequests : Continue(c, started(request.tool, request.args))
    /\ UNCHANGED utilVars

NextConcurrent ==
    \/ \E c \in DOMAIN pending : CallMutationTool(c)
    \/ \E c \in DOMAIN pending : DownloadProjectYAML(c)
    \/ \E c \in DOMAIN pending : UpdateProjectYAML(c)

SpecConcurrent == InitConcurrent /\ [][NextConcurrent]_vars

\* ------------------------------------------ MCP server: resource handlers

\* s.split('/').filter(p => p): the non-empty parts of s between slashes.
RECURSIVE splitParts(_)
splitParts(s) ==
    IF s = "" THEN <<>>
    ELSE LET i == indexOf(s, "/")
         IN  IF i = 0 THEN <<s>>
             ELSE (IF i = 1 THEN <<>> ELSE <<SubSeq(s, 1, i - 1)>>)
                      \o splitParts(SubSeq(s, i + 1, Len(s)))

\* new URL(uri) threw a TypeError: the text has no scheme.
InvalidURL == [valid |-> FALSE, protocol |-> "", host |-> "", pathname |-> ""]

\* new URL(uri): protocol is the scheme with its colon.  After '//' the text
\* up to the next slash is the host, and pathname is what follows it; without
\* '//' the URL has no host and pathname is all the text after the colon.
URL(uri) ==
    LET colon == indexOf(uri, ":")
        rest == SubSeq(uri, colon + 1, Len(uri))
        hasAuthority == Len(rest) >= 2 /\ SubSeq(rest, 1, 2) = "//"
        authority == SubSeq(rest, 3, Len(rest))
        slash == indexOf(authority, "/")
    IN  IF colon <= 1 \/ includes(SubSeq(uri, 1, colon - 1), "/") THEN InvalidURL
        ELSE IF hasAuthority
        THEN [valid |-> TRUE, protocol |-> SubSeq(uri, 1, colon),
              host |-> IF slash = 0 THEN authority ELSE SubSeq(authority, 1, slash - 1),
              pathname |-> IF slash = 0 THEN ""
                           ELSE SubSeq(authority, slash, Len(authority))]
        ELSE [valid |-> TRUE, protocol |-> SubSeq(uri, 1, colon), host |-> "",
              pathname |-> rest]

\* The resource types ListResources lists for a project, in its order; the
\* first is the project itself, whose uri has no type part.
ResourceTypes ==
    <<"project", "summary", "files", "components", "pages", "database", "diagnosis">>

\* `flutterflow://projects/${project.projectId}` and its /type variants.
resourceUri(projectId, resourceType) ==
    "flutterflow://projects/" \o projectId
        \o (IF resourceType = "project" THEN "" ELSE "/" \o resourceType)

\* `${project.name} (Project)` and the names of the other resources.
resourceName(name, resourceType) ==
    name \o (CASE resourceType = "project" -> " (Project)"
               [] resourceType = "summary" -> " (Summary)"
               [] resourceType = "files" -> " (Files)"
               [] resourceType = "components" -> " (Components)"
               [] resourceType = "pages" -> " (Pages)"
               [] resourceType = "database" -> " (Database)"
               [] resourceType = "diagnosis" -> " (Health Check)")

\* The resources pushed for the projects, in order.
RECURSIVE listResources(_)
listResources(projects) ==
    IF projects = <<>> THEN <<>>
    ELSE [i \in 1..Len(ResourceTypes) |->
             [uri |-> resourceUri(Head(projects).projectId, ResourceTypes[i]),
              name |-> resourceName(Head(projects).name, ResourceTypes[i]),
              mimeType |-> "application/json"]]
         \o listResources(Tail(projects))

\* A resource read: the uri requested, the API method it awaits (pc), the
\* project id and resource type the handler took from the uri, the contents
\* it returned or the message of the error it threw.
NoRead ==
    [uri |-> "", pc |-> "idle", projectId |-> Null, resourceType |-> "",
     contents |-> Json(Null), error |-> ""]

\* The catch of the ReadResource handler throws again: the request is
\* rejected.
rejects(read, message) ==
    [read EXCEPT !.pc = "rejected",
                 !.error = "Error reading resource " \o read.uri \o ": " \o message]

\* return { contents: [{ uri, mimeType, text: JSON.stringify(value) }] }
readReturns(read, value) == [read EXCEPT !.pc = "returned", !.contents = Json(value)]

\* The ReadResource handler from its entry to its first await.
readStarted(uri) ==
    LET read == [NoRead EXCEPT !.uri = uri]
        url == URL(uri)
        pathParts == splitParts(url.pathname)
    IN  IF ~url.valid THEN rejects(read, "Invalid URL")
        ELSE IF url.protocol # "flutterflow:" THEN rejects(read, "Unsupported protocol")
        ELSE IF Len(pathParts) < 2 \/ pathParts[1] # "projects"
        THEN rejects(read, "Invalid resource path")
        ELSE LET resourceType == IF Len(pathParts) >= 3 THEN pathParts[3] ELSE "project"
                 located == [read EXCEPT !.projectId = Str(pathParts[2]),
                                         !.resourceType = resourceType]
             IN  CASE resourceType = "project" ->
                        [located EXCEPT !.pc = "resource/listProjects"]
                   [] resourceType \in {"summary", "files", "diagnosis"} ->
                        [located EXCEPT !.pc = "resource/getProjectFiles"]
                   [] resourceType \in {"components", "pages", "database"} ->
                        [located EXCEPT !.pc = "resource/downloadProjectYAML"]
                   [] OTHER ->
                        rejects(located, "Unknown resource type: " \o resourceType)

\* projectFiles.filter(f => f.includes(category)).length
countOf(projectFiles, category) ==
    Cardinality({f \in projectFiles : includes(f, category)})

FileCategories == {"components", "pages", "collections", "custom_code"}

\* case 'summary'
summaryOf(projectId, projectFiles) ==
    [projectId |-> projectId,
     totalFiles |-> Cardinality(projectFiles),
     fileCategories |->
         [components |-> countOf(projectFiles, "components"),
          pages |-> countOf(projectFiles, "pages"),
          collections |-> countOf(projectFiles, "collections"),
          customCode |-> countOf(projectFiles, "custom_code"),
          other |-> Cardinality({f \in projectFiles :
                                    ~\E cat \in FileCategories : includes(f, cat)})],
     recommendation |-> IF Cardinality(projectFiles) > 50
                        THEN "Use summary endpoints for this large project"
                        ELSE "Full YAML processing should work"]

\* case 'files'
fileDataOf(projectId, fileList) ==
    [projectId |-> projectId,
     totalFiles |-> Cardinality(fileList),
     files |-> {[name |-> file,
                 category |-> IF includes(file, "components") THEN "component"
                              ELSE IF includes(file, "pages") THEN "page"
                              ELSE IF includes(file, "collections") THEN "database"
                              ELSE IF includes(file, "custom_code") THEN "custom_code"
                              ELSE "other"] : file \in fileList}]

\* case 'diagnosis'
diagnosisOf(projectId, diagnosisFiles) ==
    LET n == Cardinality(diagnosisFiles)
    IN  [projectId |-> projectId,
         health |-> IF n > 100 THEN "Large project - use summary endpoints"
                    ELSE IF n > 50 THEN "Medium project - some operations may be slow"
                    ELSE "Small project - all operations should work smoothly",
         statistics |->
             [totalFiles |-> n,
              componentFiles |-> countOf(diagnosisFiles, "components"),
              pageFiles |-> countOf(diagnosisFiles, "pages"),
              databaseFiles |-> countOf(diagnosisFiles, "collections"),
              customCodeFiles |-> countOf(diagnosisFiles, "custom_code")],
         recommendations |->
             IF n > 100
             THEN <<"Use summary resources instead of full content",
                    "Access via flutterflow://projects/{id}/summary",
                    "Consider processing in batches if updates needed">>
             ELSE IF n > 50
             THEN <<"Use summary resources for faster access",
                    "Full YAML processing may work but could be slow">>
             ELSE <<"All MCP tools and resources should work without issues">>,
         estimatedSize |-> "Approximately " \o ToString(n * 2) \o "KB based on "
                               \o ToString(n) \o " files"]

\* The catch of case 'components' / 'pages' / 'database': the names of the
\* files of that kind, returned in place of the records.
fallbackOf(resourceType, projectFiles) ==
    CASE resourceType = "components" ->
            [error |-> "Full component data unavailable due to size limitations",
             componentFiles |-> {f \in projectFiles : includes(f, "components")},
             suggestion |-> "Use get_file_list_summary or summary endpoints"]
      [] resourceType = "pages" ->
            [error |-> "Full page data unavailable due to size limitations",
             pageFiles |-> {f \in projectFiles : includes(f, "pages")},
             suggestion |-> "Use get_file_list_summary or summary endpoints"]
      [] resourceType = "database" ->
            [error |-> "Full database data unavailable due to size limitations",
             collectionFiles |-> {f \in projectFiles : includes(f, "collections")},
             suggestion |-> "Use get_file_list_summary or summary endpoints"]

\* The extract operation of case 'components' / 'pages' / 'database'.
extractedResource(resourceType, f) ==
    CASE resourceType = "components" -> Returned(extractComponents(f))
      [] resourceType = "pages" -> Returned(extractPages(f))
      [] resourceType = "database" ->
            IF collectionsThrow(f) THEN Thrown(TypeErrorMessage)
            ELSE Returned(extractDatabaseCollections(f))

\* The uris a client reads besides those it was listed: with an empty host,
\* without '//', of an unknown type, of another scheme, without a scheme.
OtherUris ==
    {"flutterflow:///projects/p1", "flutterflow:///projects/p9",
     "flutterflow:projects/p1/summary", "flutterflow:/projects/p9/files",
     "flutterflow:projects/p1/files", "flutterflow:projects/p1/diagnosis",
     "flutterflow:projects/p1/components", "flutterflow:projects/p2/pages",
     "flutterflow:projects/p2/database", "flutterflow:projects/p1/logs",
     "flutterflow:projects", "http://projects/p1", "projects/p1"}

\* out   the answer of the last ListResources request: [resources]

\* The uris of the resources the client was listed.
ListedUris ==
    IF "resources" \in DOMAIN out
    THEN {out.resources[i].uri : i \in 1..Len(out.resources)}
    ELSE {}

InitResources ==
    /\ files = NoProps
    /\ blob = NoBlob
    /\ out = NoOut
    /\ hist = <<>>
    /\ remote = [entries |-> Projects,
                 yaml |-> [p1 |-> encodeProjectYaml(AppFiles),
                           p2 |-> encodeProjectYaml(ShopFiles)]]
    /\ pending = [c \in Callers |-> NoRead]

\* The pending requests are resource reads.
Reading(c) == "uri" \in DOMAIN pending[c]

\* server.setRequestHandler(ListResourcesRequestSchema, ...): seven resources
\* per project, or none when listProjects failed.
ListResources ==
    /\ \A c \in DOMAIN pending : Reading(c)
    /\ pending # NoProps
    /\ \E answer \in Answers :
           LET projects == listProjects(remote.entries, answer)
           IN  out' = [resources |-> IF projects.ok THEN listResources(projects.value)
                                     ELSE <<>>]
    /\ UNCHANGED <<files, blob, hist, remote, pending>>

\* server.setRequestHandler(ReadResourceRequestSchema, ...): a request
\* arrives and its handler runs to its first await.
ReadResource(c) ==
    /\ Reading(c)
    /\ pending[c].pc \in {"idle", "returned", "rejected"}
    /\ \E uri \in ListedUris \cup OtherUris : Continue(c, readStarted(uri))
    /\ UNCHANGED utilVars

\* case 'project': await flutterflowAPI.listProjects() answers.
ReadListProjects(c) ==
    /\ Reading(c)
    /\ pending[c].pc = "resource/listProjects"
    /\ \E answer \in Answers :
           LET projects == listProjects(remote.entries, answer)
               found == {i \in 1..Len(projects.value) :
                            Str(projects.value[i].projectId) = pending[c].projectId}
           IN  Continue(c,
                   IF ~projects.ok THEN rejects(pending[c], projects.message)
                   ELSE IF found = {}
                        THEN rejects(pending[c],
                                     "Project not found: " \o pending[c].projectId.s)
                   ELSE readReturns(pending[c],
                                    projects.value[CHOOSE i \in found :
                                                      \A j \in found : i <= j]))
    /\ UNCHANGED utilVars

\* await flutterflowAPI.getProjectFiles(projectId) answers: in case
\* 'summary', 'files' and 'diagnosis', and in the catch of case 'components',
\* 'pages' and 'database'.
ReadGetProjectFiles(c) ==
    /\ Reading(c)
    /\ pending[c].pc = "resource/getProjectFiles"
    /\ \E answer \in Answers :
           LET projectFiles == getProjectFiles(remote.yaml, pending[c].projectId, answer)
               resourceType == pending[c].resourceType
               projectId == pending[c].projectId.s
           IN  Continue(c,
                   IF ~projectFiles.ok THEN rejects(pending[c], projectFiles.message)
                   ELSE readReturns(pending[c],
                            CASE resourceType = "summary" ->
                                    summaryOf(projectId, projectFiles.value)
                              [] resourceType = "files" ->
                                    fileDataOf(projectId, projectFiles.value)
                              [] resourceType = "diagnosis" ->
                                    diagnosisOf(projectId, projectFiles.value)
                              [] OTHER -> fallbackOf(resourceType, projectFiles.value)))
    /\ UNCHANGED utilVars

\* case 'components' / 'pages' / 'database': await
\* flutterflowAPI.downloadProjectYAML(projectId) answers; the records are
\* returned, or an error in the download, the decoding or the extraction
\* takes the handler to its catch, which awaits getProjectFiles.
ReadDownloadProjectYAML(c) ==
    /\ Reading(c)
    /\ pending[c].pc = "resource/downloadProjectYAML"
    /\ \E answer \in Answers :
           LET yaml == downloadProjectYAML(remote.yaml, pending[c].projectId, answer)
               decoded == decodeProjectYaml(yaml.value)
               records == extractedResource(pending[c].resourceType, decoded)
           IN  Continue(c,
                   IF yaml.ok /\ decoded # DecodeError /\ records.ok
                   THEN readReturns(pending[c], records.value)
                   ELSE [pending[c] EXCEPT !.pc = "resource/getProjectFiles"])
    /\ UNCHANGED utilVars

NextResources ==
    \/ ListResources
    \/ \E c \in DOMAIN pending : ReadResource(c)
    \/ \E c \in DOMAIN pending : ReadListProjects(c)
    \/ \E c \in DOMAIN pending : ReadGetProjectFiles(c)
    \/ \E c \in DOMAIN pending : ReadDownloadProjectYAML(c)

SpecResources == InitResources /\ [][NextResources]_vars

\* ------------------------------------------- FlutterFlowAPI: the inputs

\* The projects an account may hold; two of the names differ in letter case
\* only.
Catalog ==
    {[projectId |-> "p1", name |-> "MyApp"], [projectId |-> "p2", name |-> "Shop"],
     [projectId |-> "p3", name |-> "MYAPP"]}

\* The lists listProjects may answer with: up to MaxProjects different
\* projects in any order.
RECURSIVE ListsOver(_, _)
ListsOver(S, n) ==
    IF n = 0 THEN {<<>>}
    ELSE LET shorter == ListsOver(S, n - 1)
         IN  shorter \cup
             {Append(l, x) : l \in {m \in shorter : Len(m) = n - 1},
                             x \in S}

AccountLists ==
    {l \in ListsOver(Catalog, MaxProjects) :
        \A i, j \in 1..Len(l) : l[i].projectId = l[j].projectId => i = j}

\* The names a caller looks up: other letter cases, a proper prefix, none.
ProjectNames == {"myapp", "MYAPP", "shop", "Sho", ""}

\* A request the remote served.
NoError == [isAxiosError |-> FALSE, message |-> "", response |-> Null]

\* The errors a request may end in: the replies of the mock server (a body
\* with error and message), a body with an error field only, no body, an
\* empty body, and no response at all.
RequestErrors ==
    {AxiosError("500", "Internal Server Error",
                Map([error |-> Str("Internal Server Error"),
                     message |-> Str("Internal Server Error")])),
     AxiosError("401", "Unauthorized",
                Map([error |-> Str("Unauthorized"), message |-> Str("Invalid API token")])),
     AxiosError("404", "Not Found",
                Map([error |-> Str("Not Found"), message |-> Str("Project p1 not found")])),
     AxiosError("403", "Forbidden", Map([error |-> Str("Access denied")])),
     AxiosError("404", "Not Found", Null),
     AxiosError("500", "Internal Server Error", Str("")),
     TimeoutError}

\* The bundles a caller submits.
SubmittedYaml == {encodeProjectYaml(ShopFiles), Garbage}

\* The project ids a caller passes: one the remote holds, one it does not.
ProjectIds == {Str("p1"), Str("p9")}

\* ------------------------------------------- FlutterFlowAPI: the actions

\* out   the last call made on the client: [op, name, projectId, yaml, error,
\*       result]

InitApi ==
    /\ files = NoProps
    /\ blob = NoBlob
    /\ out = NoOut
    /\ hist = <<>>
    /\ remote \in {[entries |-> entries,
                     yaml |-> [p1 |-> encodeProjectYaml(AppFiles),
                               p2 |-> encodeProjectYaml(ShopFiles)]] :
                       entries \in AccountLists}
    /\ pending = NoProps

\* The remote is the one of a client called on its own.
ApiUnderCall == pending = NoProps /\ "entries" \in DOMAIN remote

\* What the catch of an API method passes on: nothing for a served request,
\* else getErrorMessage(error).
answerOf(error) == IF error = NoError THEN "ok" ELSE getErrorMessage(error)

\* The error of a request about projectId: the remote answers 404 for a
\* project it does not hold, else as chosen.
errorFor(held, projectId, error) ==
    IF projectId.t = "str" /\ projectId.s \in DOMAIN held THEN error
    ELSE AxiosError("404", "Not Found", Null)

\* The call made, with its outcome.
Called(op, name, projectId, yaml, error, result) ==
    [op |-> op, name |-> name, projectId |-> projectId, yaml |-> yaml, error |-> error,
     result |-> result]

\* await api.listProjects()
ApiListProjects ==
    /\ ApiUnderCall
    /\ \E error \in {NoError} \cup RequestErrors :
           out' = Called("listProjects", "", Null, NoBlob, error,
                         listProjects(remote.entries, answerOf(error)))
    /\ UNCHANGED <<files, blob, hist, remote, pending>>

\* await api.getProjectByName(projectName)
ApiGetProjectByName ==
    /\ ApiUnderCall
    /\ \E error \in {NoError} \cup RequestErrors, projectName \in ProjectNames :
           out' = Called("getProjectByName", projectName, Null, NoBlob, error,
                         getProjectByName(remote.entries, projectName, answerOf(error)))
    /\ UNCHANGED <<files, blob, hist, remote, pending>>

\* await api.getProjectIdByName(projectName)
ApiGetProjectIdByName ==
    /\ ApiUnderCall
    /\ \E error \in {NoError} \cup RequestErrors, projectName \in ProjectNames :
           out' = Called("getProjectIdByName", projectName, Null, NoBlob, error,
                         getProjectIdByName(remote.entries, projectName, answerOf(error)))
    /\ UNCHANGED <<files, blob, hist, remote, pending>>

\* await api.getProjectFiles(projectId)
ApiGetProjectFiles ==
    /\ ApiUnderCall
    /\ \E chosen \in {NoError} \cup RequestErrors, projectId \in ProjectIds :
           LET error == errorFor(remote.yaml, projectId, chosen)
           IN  out' = Called("getProjectFiles", "", projectId, NoBlob, error,
                             getProjectFiles(remote.yaml, projectId, answerOf(error)))
    /\ UNCHANGED <<files, blob, hist, remote, pending>>

\* await api.downloadProjectYAML(projectId)
ApiDownloadProjectYAML ==
    /\ ApiUnderCall
    /\ \E chosen \in {NoError} \cup RequestErrors, projectId \in ProjectIds :
           LET error == errorFor(remote.yaml, projectId, chosen)
           IN  out' = Called("downloadProjectYAML", "", projectId, NoBlob, error,
                             downloadProjectYAML(remote.yaml, projectId, answerOf(error)))
    /\ UNCHANGED <<files, blob, hist, remote, pending>>

\* await api.validateProjectYAML(projectId, yamlContent)
ApiValidateProjectYAML ==
    /\ ApiUnderCall
    /\ \E chosen \in {NoError} \cup RequestErrors, projectId \in ProjectIds,
             yamlContent \in SubmittedYaml :
           LET error == errorFor(remote.yaml, projectId, chosen)
           IN  out' = Called("validateProjectYAML", "", projectId, yamlContent, error,
                             validateProjectYAML(remote.yaml, projectId, yamlContent,
                                                 answerOf(error)))
    /\ UNCHANGED <<files, blob, hist, remote, pending>>

\* await api.updateProjectYAML(projectId, yamlContent): the remote holds the
\* bundle once it served the request.
ApiUpdateProjectYAML ==
    /\ ApiUnderCall
    /\ \E chosen \in {NoError} \cup RequestErrors, projectId \in ProjectIds,
             yamlContent \in SubmittedYaml :
           LET error == errorFor(remote.yaml, projectId, chosen)
               result == updateProjectYAML(remote.yaml, projectId, yamlContent,
                                           answerOf(error))
           IN  /\ out' = Called("updateProjectYAML", "", projectId, yamlContent, error,
                                result)
               /\ remote' = IF result.ok
                            THEN [remote EXCEPT !.yaml =
                                     heldAfterUpdate(@, projectId, yamlContent)]
                            ELSE remote
    /\ UNCHANGED <<files, blob, hist, pending>>

NextApi ==
    \/ ApiListProjects
    \/ ApiGetProjectByName
    \/ ApiGetProjectIdByName
    \/ ApiGetProjectFiles
    \/ ApiDownloadProjectYAML
    \/ ApiValidateProjectYAML
    \/ ApiUpdateProjectYAML

SpecApi == InitApi /\ [][NextApi]_vars

\* Every call a caller can make.
Init ==
    InitCodec \/ InitReceive \/ InitExtract \/ InitMutate \/ InitAdd \/ InitServer
        \/ InitConcurrent \/ InitResources \/ InitApi

Next ==
    NextCodec \/ NextReceive \/ NextExtract \/ NextMutate \/ NextAdd \/ NextServer
        \/ NextConcurrent \/ NextResources \/ NextApi

Spec == Init /\ [][Next]_vars

\* ------------------------------------------------------ claims: the codec

\* C1: for every Document Mapping m, decodeProjectYaml(encodeProjectYaml(m))
\* is deep-equal to m: the decode call returns, with exactly m's paths, each
\* mapped to an equal document.
C1_RoundTrip ==
    Done("decodeProjectYaml") =>
        /\ ~out["decodeProjectYaml"].threw
        /\ out["decodeProjectYaml"].result = files

\* The entries of the bundle that are files.
FileEntries == {n \in DOMAIN blob.entries : ~blob.entries[n].isDirectory}

\* C16: decodeProjectYaml is all-or-nothing: if the input is not a valid
\* archive, or the content of any single entry cannot be parsed, the call
\* fails with the error 'Failed to decode project YAML' and returns no
\* mapping.
C16_AllOrNothing ==
    (/\ Done("decodeProjectYaml")
     /\ \/ blob = Garbage
        \/ blob.t = "zip" /\ \E n \in FileEntries : blob.entries[n].data = Unparseable)
        => /\ out["decodeProjectYaml"].threw
           /\ out["decodeProjectYaml"].result = DecodeError

\* C17: decodeProjectYaml never silently omits an archive entry: when the
\* call returns a mapping, the path of every non-directory entry of the
\* archive is one of its keys.
C17_NoEntryOmitted ==
    (/\ Done("decodeProjectYaml")
     /\ blob.t = "zip"
     /\ ~out["decodeProjectYaml"].threw)
        => \A n \in FileEntries : n \in DOMAIN out["decodeProjectYaml"].result

\* ---------------------------------------------------- claims: the mutators

\* The update calls made so far.
UpdateCalls == {i \in 1..Len(hist) : hist[i].op \in {"updateComponent", "updatePage"}}

\* The add calls made so far.
AddCalls ==
    {i \in 1..Len(hist) :
        hist[i].op \in {"addCustomAction", "addCustomFunction", "addDatabaseCollection"}}

\* The path segment, directory and wrapper key of an update operation.
segmentOf(op) == IF op = "updateComponent" THEN "components/" ELSE "pages/"

wrapperOf(op) ==
    CASE op = "updateComponent" -> "componentDefinition"
      [] op = "updatePage" -> "pageDefinition"
      [] op = "addCustomAction" -> "actionDefinition"
      [] op = "addCustomFunction" -> "functionDefinition"
      [] op = "addDatabaseCollection" -> "collectionDefinition"

\* The path an add operation writes.
pathOf(op, name) ==
    CASE op = "addCustomAction" -> "custom_code/actions/" \o name \o ".yaml"
      [] op = "addCustomFunction" -> "custom_code/functions/" \o name \o ".yaml"
      [] op = "addDatabaseCollection" -> "collections/" \o name \o ".yaml"

\* The fields of a value that is a map, none otherwise.
FieldsOf(v) == IF v.t = "map" THEN v.f ELSE NoProps

\* new is old with patch shallow-merged into its wrapper: the wrapper holds
\* every patch field with the patch's value and every other prior wrapper
\* field with its prior value; the other top-level keys are those of old.
ShallowMerged(old, new, wrapper, patch) ==
    LET oldTop == FieldsOf(old)
        oldWrapper == FieldsOf(OptGet(old, wrapper))
    IN  /\ new.t = "map"
        /\ wrapper \in DOMAIN new.f
        /\ new.f[wrapper].t = "map"
        /\ \A k \in DOMAIN patch :
               k \in DOMAIN new.f[wrapper].f /\ new.f[wrapper].f[k] = patch[k]
        /\ \A k \in (DOMAIN oldWrapper) \ (DOMAIN patch) :
               k \in DOMAIN new.f[wrapper].f /\ new.f[wrapper].f[k] = oldWrapper[k]
        /\ (DOMAIN new.f) \ {wrapper} = (DOMAIN oldTop) \ {wrapper}
        /\ \A k \in (DOMAIN oldTop) \ {wrapper} : new.f[k] = oldTop[k]

\* C2: updateComponent / updatePage performs a one-level shallow merge on
\* every matched document: the call returns a mapping in which each matched
\* document's wrapper holds the patch fields with the patch's values
\* (nested values replaced wholesale), its other prior fields unchanged, and
\* the document's other top-level keys unchanged.
C2_ShallowMerge ==
    \A i \in UpdateCalls :
        LET c == hist[i]
        IN  /\ ~c.threw
            /\ \A p \in DOMAIN c.before :
                   updateMatches(segmentOf(c.op), wrapperOf(c.op), p, c.before[p], c.name)
                       => ShallowMerged(c.before[p], c.after[p], wrapperOf(c.op), c.arg.f)

\* s with only a trailing .yaml or .yml removed.
withoutExtension(s) ==
    IF endsWith(s, ".yaml") THEN SubSeq(s, 1, Len(s) - 5)
    ELSE IF endsWith(s, ".yml") THEN SubSeq(s, 1, Len(s) - 4)
    ELSE s

\* The resolved name of a document: the wrapper's name field when the
\* wrapper has one, else the last path segment without its extension.
resolvedName(filename, wrapper) ==
    IF wrapper.t = "map" /\ "name" \in DOMAIN wrapper.f
    THEN wrapper.f.name
    ELSE Str(withoutExtension(lastPart(filename)))

\* p is under the directory dir ("components/", "pages/").
under(p, dir) == Len(dir) <= Len(p) /\ SubSeq(p, 1, Len(dir)) = dir

\* C3: if no document under the kind's directory has a resolved
\* identity equal to the identifier, the update returns a mapping equal to
\* its input and raises no error.
C3_MissIsNoOp ==
    \A i \in UpdateCalls :
        LET c == hist[i]
        IN  (\A p \in DOMAIN c.before :
                ~(/\ under(p, segmentOf(c.op))
                  /\ resolvedName(p, OptGet(c.before[p], wrapperOf(c.op))) = Str(c.name)))
            => (~c.threw /\ c.after = c.before)

\* C4: after addCustomAction / addCustomFunction / addDatabaseCollection
\* (files, n, def), the wrapper of the document at the synthesized path has
\* name equal to n, also when def has a name field of its own.
C4_NameWins ==
    \A i \in AddCalls :
        LET c == hist[i]
        IN  Get(Get(c.after[pathOf(c.op, c.name)], wrapperOf(c.op)), "name") = Str(c.name)

\* The add at i + 1 repeats the operation and name of the add at i.
Repeated(i) ==
    /\ i \in AddCalls
    /\ i + 1 \in AddCalls
    /\ hist[i + 1].op = hist[i].op
    /\ hist[i + 1].name = hist[i].name

\* C5: add(add(m, n, def1), n, def2) holds one document at the synthesized
\* path, whose wrapper has exactly def2's fields plus name and no field only
\* def1 had, and every other entry of m unchanged.
C5_AddOverwrites ==
    \A i \in 1..Len(hist) :
        Repeated(i) =>
            LET m == hist[i].before
                r == hist[i + 1].after
                def2 == hist[i + 1].arg.f
                path == pathOf(hist[i].op, hist[i].name)
                wrapper == wrapperOf(hist[i].op)
            IN  /\ ~hist[i].threw /\ ~hist[i + 1].threw
                /\ DOMAIN r = (DOMAIN m) \cup {path}
                /\ r[path].t = "map"
                /\ DOMAIN r[path].f = {wrapper}
                /\ r[path].f[wrapper].t = "map"
                /\ DOMAIN r[path].f[wrapper].f = (DOMAIN def2) \cup {"name"}
                /\ \A k \in DOMAIN def2 : r[path].f[wrapper].f[k] = def2[k]
                /\ \A q \in (DOMAIN m) \ {path} : r[q] = m[q]

\* An add repeated on a mapping that already held a document at the path and
\* another entry, the first definition having a field the second lacks.
C5_Witness ==
    \E i \in 1..Len(hist) :
        /\ Repeated(i)
        /\ pathOf(hist[i].op, hist[i].name) \in DOMAIN hist[i].before
        /\ (DOMAIN hist[i].before) \ {pathOf(hist[i].op, hist[i].name)} # {}
        /\ (DOMAIN hist[i].arg.f) \ (DOMAIN hist[i + 1].arg.f) # {}

\* C12: updateComponent, updatePage, addCustomAction, addCustomFunction and
\* addDatabaseCollection never mutate their input: when the call ends, the
\* object the caller passed holds the same keys, each with the document it
\* held before the call.
C12_InputUnchanged ==
    \A i \in 1..Len(hist) : hist[i].input = hist[i].before

\* An update that changed a matched document, and an add that replaced a
\* document already at its path: the mapping returned differs from the input.
C12_Witness ==
    /\ \E i \in UpdateCalls : ~hist[i].threw /\ hist[i].after # hist[i].before
    /\ \E i \in AddCalls :
           /\ pathOf(hist[i].op, hist[i].name) \in DOMAIN hist[i].before
           /\ hist[i].after # hist[i].before

\* What an update call returns is the object it built.
ReturnedIsBuilt ==
    \A i \in UpdateCalls :
        LET c == hist[i]
        IN  ~c.threw =>
                c.after = objectsAfterUpdate(segmentOf(c.op), wrapperOf(c.op), c.before,
                                             c.name, c.arg)[spreadObject]

\* The update at i + 1 repeats the operation, identifier and patch of the
\* update at i.
RepeatedUpdate(i) ==
    /\ i \in UpdateCalls
    /\ i + 1 \in UpdateCalls
    /\ hist[i + 1].op = hist[i].op
    /\ hist[i + 1].name = hist[i].name
    /\ hist[i + 1].arg = hist[i].arg

\* C13: for every mapping m, identifier id and patch p, also a patch that
\* changes the name field, update(update(m, id, p), id, p) is deep-equal to
\* update(m, id, p): when the first call returns, the repeated call returns
\* the mapping it was given.
C13_Idempotent ==
    \A i \in 1..Len(hist) :
        (RepeatedUpdate(i) /\ ~hist[i].threw) =>
            /\ ~hist[i + 1].threw
            /\ hist[i + 1].after = hist[i].after

\* The documents update call i matched.
MatchedBy(i) ==
    {p \in DOMAIN hist[i].before :
        updateMatches(segmentOf(hist[i].op), wrapperOf(hist[i].op), p,
                      hist[i].before[p], hist[i].name)}

\* A repeated update whose patch changes the name: one document matched by
\* its wrapper's name only, one matched by its filename.
C13_Witness ==
    \E i \in 1..Len(hist) :
        /\ RepeatedUpdate(i) /\ ~hist[i].threw
        /\ "name" \in DOMAIN hist[i].arg.f
        /\ \E p \in MatchedBy(i) : extractNameFromFilename(p) # hist[i].name
        /\ \E p \in MatchedBy(i) : extractNameFromFilename(p) = hist[i].name

\* C14: when several documents match the identifier in one updateComponent /
\* updatePage call, the call returns a mapping in which every matching
\* document has the patch merged into its own wrapper; none is skipped
\* because another one matched first.
C14_AllMatchesUpdated ==
    \A i \in UpdateCalls :
        Cardinality(MatchedBy(i)) >= 2 =>
            /\ ~hist[i].threw
            /\ \A p \in MatchedBy(i) :
                   ShallowMerged(hist[i].before[p], hist[i].after[p],
                                 wrapperOf(hist[i].op), hist[i].arg.f)

\* C15: on every mapping decodeProjectYaml can produce (empty documents,
\* documents without a wrapper, null wrappers and null nested collection
\* entries), every extract, update and add operation returns normally: no
\* call raises an error.
C15_NoError ==
    /\ \A op \in DOMAIN out : ~out[op].threw
    /\ \A i \in 1..Len(hist) : ~hist[i].threw

\* -------------------------------------------------- claims: the extractors

\* The filenames of the records in a sequence.
Filenames(records) == {records[i].filename : i \in 1..Len(records)}

\* All five extract operations have been called on files.
AllExtracted ==
    /\ Done("extractComponents")
    /\ Done("extractPages")
    /\ Done("extractCustomCode")
    /\ Done("extractDatabaseCollections")
    /\ Done("extractAppState")

\* The document extractAppState's record is built from: app-state.yaml unless
\* it is falsy, then appState.yaml.
appStateSource(f) ==
    IF Truthy(Lookup(f, "app-state.yaml")) THEN "app-state.yaml" ELSE "appState.yaml"

\* The entity kinds the document at path p yielded records in.
KindsOf(p) ==
    {kind \in {"component", "page", "action", "function", "widget", "collection", "appState"} :
        CASE kind = "component" -> p \in Filenames(out["extractComponents"].result)
          [] kind = "page" -> p \in Filenames(out["extractPages"].result)
          [] kind = "action" -> p \in Filenames(out["extractCustomCode"].result.actions)
          [] kind = "function" -> p \in Filenames(out["extractCustomCode"].result.functions)
          [] kind = "widget" -> p \in Filenames(out["extractCustomCode"].result.widgets)
          [] kind = "collection" -> p \in Filenames(out["extractDatabaseCollections"].result)
          [] kind = "appState" ->
                out["extractAppState"].result # Null /\ p = appStateSource(files)}

\* C6: every document of the mapping yields records in at most one entity
\* kind across the five extract operations.
C6_AtMostOneKind ==
    AllExtracted => \A p \in DOMAIN files : Cardinality(KindsOf(p)) <= 1

NamesResolved(records) ==
    \A i \in 1..Len(records) :
        records[i].name = resolvedName(records[i].filename, records[i].definition)

\* The records of extractDatabaseCollections that come from per-file documents.
perFileRecords(records) ==
    SelectSeq(records,
              LAMBDA r : collectionBranch(r.filename, files[r.filename]) = "perFile")

\* C7: in every record of extractComponents, extractPages and the per-file
\* branch of extractDatabaseCollections, name is the wrapper's explicit name
\* when present, and otherwise the final path segment with only its trailing
\* .yaml or .yml removed.
C7_ResolvedName ==
    /\ Done("extractComponents") => NamesResolved(out["extractComponents"].result)
    /\ Done("extractPages") => NamesResolved(out["extractPages"].result)
    /\ Done("extractDatabaseCollections") =>
           NamesResolved(perFileRecords(out["extractDatabaseCollections"].result))

hasWrapper(content, wrapper) == content.t = "map" /\ wrapper \in DOMAIN content.f

\* C8: extractComponents returns a record for a document if and only if its
\* path is under components/ and it has a componentDefinition wrapper, and
\* extractPages likewise for pages/ and pageDefinition.
C8_KindIsolation ==
    /\ Done("extractComponents") =>
           \A p \in DOMAIN files :
               p \in Filenames(out["extractComponents"].result)
                   <=> (under(p, "components/") /\ hasWrapper(files[p], "componentDefinition"))
    /\ Done("extractPages") =>
           \A p \in DOMAIN files :
               p \in Filenames(out["extractPages"].result)
                   <=> (under(p, "pages/") /\ hasWrapper(files[p], "pageDefinition"))

\* The per-file collection documents of the mapping.
perFileDocs ==
    {p \in DOMAIN files :
        under(p, "collections/") /\ hasWrapper(files[p], "collectionDefinition")}

\* The mapping holds per-file collection documents and a collections.yaml
\* whose collections key is a map.
DualLayout ==
    /\ perFileDocs # {}
    /\ "collections.yaml" \in DOMAIN files
    /\ hasWrapper(files["collections.yaml"], "collections")
    /\ files["collections.yaml"].f.collections.t = "map"

\* The number of records with the given filename and name.
Count(records, filename, name) ==
    Cardinality({i \in 1..Len(records) :
                    records[i].filename = filename /\ records[i].name = name})

\* C9: for a mapping with both layouts, extractDatabaseCollections returns
\* exactly one record per per-file document plus one record per entry of the
\* nested map, named by its key, with no deduplication.
C9_DualLayout ==
    (Done("extractDatabaseCollections") /\ DualLayout) =>
        LET call == out["extractDatabaseCollections"]
            nested == files["collections.yaml"].f.collections.f
        IN  /\ ~call.threw
            /\ Len(call.result) = Cardinality(perFileDocs) + Cardinality(DOMAIN nested)
            /\ \A p \in perFileDocs :
                   Cardinality({i \in 1..Len(call.result) : call.result[i].filename = p}) = 1
            /\ \A n \in DOMAIN nested : Count(call.result, "collections.yaml", Str(n)) = 1

\* f without the entry at path p.
Without(f, p) == [q \in (DOMAIN f) \ {p} |-> f[q]]

\* C10: when the mapping holds both app-state.yaml and appState.yaml, the
\* result of extractAppState is computed from app-state.yaml alone: it is what
\* the mapping without appState.yaml gives.
C10_AppStatePrecedence ==
    (/\ Done("extractAppState")
     /\ {"app-state.yaml", "appState.yaml"} \subseteq DOMAIN files) =>
        out["extractAppState"].result = extractAppState(Without(files, "appState.yaml"))

\* The document's field k, or an empty list when the document has no such
\* field.
FieldOrEmpty(doc, k) == IF hasWrapper(doc, k) THEN doc.f[k] ELSE EmptyList

\* The reserved app-state paths that are keys of the mapping.
appStateKeys == {"app-state.yaml", "appState.yaml"} \cap DOMAIN files

\* C11: extractAppState returns null if and only if neither app-state.yaml
\* nor appState.yaml is a key of the mapping; otherwise it returns a record
\* whose variables, dataTypes and constants are each the document's field, or
\* an empty list when the field is absent.
C11_AppStateNull ==
    Done("extractAppState") =>
        LET r == out["extractAppState"].result
            doc == files[IF "app-state.yaml" \in appStateKeys
                         THEN "app-state.yaml" ELSE "appState.yaml"]
        IN  /\ (r = Null) <=> (appStateKeys = {})
            /\ appStateKeys # {} =>
                   r = [variables |-> FieldOrEmpty(doc, "variables"),
                        dataTypes |-> FieldOrEmpty(doc, "dataTypes"),
                        constants |-> FieldOrEmpty(doc, "constants")]

\* ------------------------------------------------- claims: the MCP server

\* The API requests call c has made so far.
TraceOf(c) == pending[c].trace

\* The trace entry is a validateProjectYAML request that reported valid.
ReportedValid(entry) ==
    /\ entry.api = "validateProjectYAML"
    /\ entry.ok
    /\ validateProjectYAML(remote.yaml, entry.projectId, entry.yaml, "ok").value.valid

\* C18: in every tool call that submits a bundle (update_component,
\* update_page, add_custom_action, add_custom_function,
\* add_database_collection, update_project_yaml), updateProjectYAML is invoked
\* only after validateProjectYAML was invoked on the same bundle within the
\* call and reported it valid.
C18_ValidatedBeforeUpdate ==
    \A c \in DOMAIN pending :
        \A i \in 1..Len(TraceOf(c)) :
            TraceOf(c)[i].api = "updateProjectYAML" =>
                \E j \in 1..(i - 1) :
                    /\ ReportedValid(TraceOf(c)[j])
                    /\ TraceOf(c)[j].yaml = TraceOf(c)[i].yaml

\* The request of call c names an existing project by projectName only.
ByNameOnly(c) ==
    /\ pending[c].pc # "idle"
    /\ DOMAIN pending[c].args.f \cap {"projectId", "projectName"} = {"projectName"}
    /\ findByName(remote.entries, pending[c].args.f.projectName.s) # Null

\* C19: a project-scoped tool (the get tools, the update and add tools)
\* called with only a projectName that names an existing project operates on
\* that project's id: every request it makes about a project carries the id
\* of the project of that name.
C19_NameResolved ==
    \A c \in DOMAIN pending :
        (ByNameOnly(c) /\ pending[c].tool \in ExtractTools \cup MutationTools) =>
            \A i \in 1..Len(TraceOf(c)) :
                TraceOf(c)[i].api # "listProjects" =>
                    TraceOf(c)[i].projectId =
                        Str(findByName(remote.entries, pending[c].args.f.projectName.s).projectId)

\* C20: every tool call that fails (remote call error, decode error, project
\* not found, missing project argument) returns a result with isError = true
\* whose text begins with 'Error: '.
C20_FailureIsError ==
    \A c \in DOMAIN pending :
        (pending[c].pc = "done" /\ pending[c].failed) =>
            /\ pending[c].result.isError
            /\ pending[c].result.text.t = "text"
            /\ under(pending[c].result.text.s, "Error: ")

\* The request of call c was rejected: an error left the handler, and the
\* client's request fails instead of receiving a result.
Rejected(c) == pending[c].pc = "rejected"

\* C21: a call of a tool whose name is not in the registered tool list is
\* rejected (an error is raised to the client); it is not answered with a
\* tool result.
C21_UnknownToolRejected ==
    \A c \in DOMAIN pending :
        (pending[c].pc # "idle" /\ pending[c].tool \notin Tools) => Rejected(c)

\* ---------------------------------------------- claims: the API client

\* The last call on the client was op.
LastCall(op) == "op" \in DOMAIN out /\ out.op = op

\* a and b are the same text when letter case is ignored.
SameIgnoringCase(a, b) ==
    /\ Len(a) = Len(b)
    /\ \A i \in 1..Len(a) :
           \/ SubSeq(a, i, i) = SubSeq(b, i, i)
           \/ \E k \in 1..Len(UpperCase) :
                  {SubSeq(a, i, i), SubSeq(b, i, i)} =
                      {SubSeq(UpperCase, k, k), SubSeq(LowerCase, k, k)}

\* The positions in the account's list of the projects named n, case ignored.
NamedAt(n) == {i \in 1..Len(remote.entries) : SameIgnoringCase(remote.entries[i].name, n)}

FirstNamed(n) == remote.entries[CHOOSE i \in NamedAt(n) : \A j \in NamedAt(n) : i <= j]

\* C22: getProjectByName(n) returns the first project of listProjects()
\* whose name equals n when letter case is ignored, and null if and only if
\* no listed project has such a name; getProjectIdByName(n) returns that
\* project's projectId, or null in the same case.
C22_NameLookup ==
    /\ (LastCall("getProjectByName") /\ out.result.ok) =>
           /\ (out.result.value = Null) <=> (NamedAt(out.name) = {})
           /\ NamedAt(out.name) # {} => out.result.value = FirstNamed(out.name)
    /\ (LastCall("getProjectIdByName") /\ out.result.ok) =>
           /\ (out.result.value = Null) <=> (NamedAt(out.name) = {})
           /\ NamedAt(out.name) # {} =>
                  out.result.value = Str(FirstNamed(out.name).projectId)

\* A lookup by a name two listed projects have in other letter cases
\* returned the first of them.
C22_Witness ==
    /\ LastCall("getProjectIdByName")
    /\ out.result.ok
    /\ Cardinality(NamedAt(out.name)) = 2
    /\ \A i \in NamedAt(out.name) : remote.entries[i].name # out.name
    /\ out.result.value = Str(remote.entries[1].projectId)

\* The prefix each method puts before the message of an error it caught.
OperationPrefix(op) ==
    CASE op = "listProjects" -> "Failed to list projects: "
      [] op = "getProjectByName" -> "Failed to find project by name: "
      [] op = "getProjectIdByName" -> "Failed to get project ID by name: "
      [] op = "getProjectFiles" -> "Failed to get project files: "
      [] op = "downloadProjectYAML" -> "Failed to download project YAML: "
      [] op = "validateProjectYAML" -> "Failed to validate project YAML: "
      [] op = "updateProjectYAML" -> "Failed to update project YAML: "

\* The methods that make the remote call themselves; the two lookups call
\* listProjects and wrap its error again.
RemoteMethods ==
    {"listProjects", "getProjectFiles", "downloadProjectYAML", "validateProjectYAML",
     "updateProjectYAML"}

\* 'S: T' of the response of an error.
StatusLine(error) ==
    Get(error.response, "status").s \o ": " \o Get(error.response, "statusText").s

\* C23: when the remote call of an API method fails with an HTTP error
\* response of status S and status text T, the method throws an error whose
\* message is its operation prefix followed by 'S: T' (for a lookup, its
\* prefix, then that of listProjects, then 'S: T'), whether or not the
\* response body carries a message or error field of its own.
C23_StatusInMessage ==
    ("op" \in DOMAIN out /\ out.error.response # Null) =>
        /\ ~out.result.ok
        /\ out.result.message =
               OperationPrefix(out.op)
                   \o (IF out.op \in RemoteMethods THEN ""
                       ELSE IF out.op = "getProjectIdByName"
                            THEN OperationPrefix("getProjectByName")
                                     \o OperationPrefix("listProjects")
                       ELSE OperationPrefix("listProjects"))
                   \o StatusLine(out.error)

\* ------------------------------------- claims: the extractors, resolved names

\* The record has a name, and it is the name field of its definition when
\* that field holds one.
HasResolvedName(record) ==
    /\ record.name # Null
    /\ Truthy(OptGet(record.definition, "name")) =>
           record.name = Get(record.definition, "name")

AllHaveResolvedName(records) ==
    \A i \in 1..Len(records) : HasResolvedName(records[i])

\* C24: every record returned by an extract operation, the actions,
\* functions and widgets of extractCustomCode included, carries a defined
\* name: the name field of the wrapper when it holds one, and otherwise a name
\* derived from the path; name is never a missing value.
C24_NameDefined ==
    /\ Done("extractComponents") => AllHaveResolvedName(out["extractComponents"].result)
    /\ Done("extractPages") => AllHaveResolvedName(out["extractPages"].result)
    /\ Done("extractDatabaseCollections") =>
           AllHaveResolvedName(perFileRecords(out["extractDatabaseCollections"].result))
    /\ Done("extractCustomCode") =>
           /\ AllHaveResolvedName(out["extractCustomCode"].result.actions)
           /\ AllHaveResolvedName(out["extractCustomCode"].result.functions)
           /\ AllHaveResolvedName(out["extractCustomCode"].result.widgets)

\* C25: extractDatabaseCollections produces records only from documents
\* under collections/ that have a collectionDefinition wrapper and from the
\* document at path collections.yaml; a document at any other path that has
\* a top-level collections key contributes no record.
C25_CollectionSources ==
    (Done("extractDatabaseCollections") /\ ~out["extractDatabaseCollections"].threw) =>
        \A p \in Filenames(out["extractDatabaseCollections"].result) :
            \/ under(p, "collections/") /\ Truthy(OptGet(files[p], "collectionDefinition"))
            \/ p = "collections.yaml"

\* ------------------------------------ claims: the mutators, add then extract

\* The records the extractor matching an add operation returns from f.
extractedFor(op, f) ==
    CASE op = "addCustomAction" -> extractCustomCode(f).actions
      [] op = "addCustomFunction" -> extractCustomCode(f).functions
      [] op = "addDatabaseCollection" ->
            IF collectionsThrow(f) THEN <<>> ELSE extractDatabaseCollections(f)

\* The records that do not come from the document at path.
FromOthers(records, path) == SelectSeq(records, LAMBDA r : r.filename # path)

\* The last call made was an add.
LastIsAdd == Len(hist) > 0 /\ Len(hist) \in AddCalls

Submits(c) == {i \in 1..Len(TraceOf(c)) : TraceOf(c)[i].api = "updateProjectYAML"}

\* Call c has invoked updateProjectYAML and awaits its answer.
Submitting(c) == pending[c].pc = "updateProjectYAML"

\* The last request of call c was a downloadProjectYAML of its project that
\* returned.
Downloaded(c) ==
    /\ TraceOf(c) # <<>>
    /\ TraceOf(c)[Len(TraceOf(c))].api = "downloadProjectYAML"
    /\ TraceOf(c)[Len(TraceOf(c))].ok
    /\ TraceOf(c)[Len(TraceOf(c))].projectId = pending[c].projectId

\* The bundle call c submits is the encoding of the mutation of the decoded
\* bundle of its project, none of the three steps having failed.
SubmitsMutated(c) ==
    LET decoded == decodeProjectYaml(remote.yaml[pending[c].projectId.s])
        updatedFiles == mutated(pending[c].tool, decoded, pending[c].args)
    IN  /\ decoded # DecodeError
        /\ ~IsError(updatedFiles)
        /\ pending[c].yaml = encodeProjectYaml(updatedFiles)

\* C27: in each call of a mutation tool the steps run in the order download,
\* decode, mutate, encode, submit: updateProjectYAML is invoked at most once,
\* only after downloadProjectYAML of the same project has returned, and never
\* when the download, decode, mutation or encode step failed.
C27_MutationOrder ==
    \A c \in DOMAIN pending :
        pending[c].tool \in MutationTools =>
            /\ Cardinality(Submits(c)) <= 1
            /\ \A i \in Submits(c) :
                   /\ i > 1
                   /\ TraceOf(c)[i - 1].api = "downloadProjectYAML"
                   /\ TraceOf(c)[i - 1].ok
                   /\ TraceOf(c)[i - 1].projectId = TraceOf(c)[i].projectId
            /\ Submitting(c) =>
                   /\ ~pending[c].failed
                   /\ Submits(c) = {}
                   /\ Downloaded(c)
                   /\ SubmitsMutated(c)
            /\ (pending[c].failed /\ Submits(c) # {}) =>
                   \A i \in Submits(c) : i = Len(TraceOf(c)) /\ ~TraceOf(c)[i].ok

\* A mutation call that went through all five steps and returned the
\* remote's answer.
C27_Witness ==
    \E c \in DOMAIN pending :
        /\ pending[c].tool \in MutationTools
        /\ pending[c].pc = "done"
        /\ ~pending[c].failed
        /\ Len(TraceOf(c)) = 2
        /\ TraceOf(c)[2].api = "updateProjectYAML"

\* The files the remote holds for p1 once the calls of callers a and then b
\* have run one after the other on the bundle it held at the start.
InTurn(a, b) ==
    LET start == decodeProjectYaml(encodeProjectYaml(AppFiles))
        afterA == mutated(pending[a].tool, start, pending[a].args)
    IN  mutated(pending[b].tool, afterA, pending[b].args)

\* Call c was a mutation call on p1 that reported success.
Succeeded(c) ==
    /\ pending[c].tool \in MutationTools
    /\ pending[c].pc = "done"
    /\ ~pending[c].failed
    /\ ~pending[c].result.isError

\* C28: mutation tool calls on the same project do not lose each other's
\* changes: when two such calls have both reported success, however their
\* download and submit steps interleaved, the project the remote holds has
\* both changes, as if the calls had run one after the other.
C28_NoLostUpdate ==
    \A a, b \in DOMAIN pending :
        (a # b /\ Succeeded(a) /\ Succeeded(b)) =>
            \/ decodeProjectYaml(remote.yaml["p1"]) = InTurn(a, b)
            \/ decodeProjectYaml(remote.yaml["p1"]) = InTurn(b, a)

\* ----------------------------------- claims: the mutators, update then extract

\* The last call made was an update that returned.
LastIsUpdate == Len(hist) > 0 /\ Len(hist) \in UpdateCalls /\ ~hist[Len(hist)].threw

\* The paths the extractor matching an update operation returns a record for.
extractedPaths(op, f) ==
    Filenames(IF op = "updateComponent" THEN extractComponents(f) ELSE extractPages(f))

\* C29: updateComponent (updatePage) changes only documents that already
\* have a componentDefinition (pageDefinition) wrapper: no document that
\* lacked the wrapper has it afterwards, the paths extractComponents
\* (extractPages) returns a record for are the same before and after the
\* update, and so is the mapping's key set.
C29_UpdateAddsNoWrapper ==
    LastIsUpdate =>
        LET call == hist[Len(hist)]
            wrapper == wrapperOf(call.op)
        IN  /\ DOMAIN call.after = DOMAIN call.before
            /\ \A p \in DOMAIN call.before :
                   ~hasWrapper(call.before[p], wrapper) => call.after[p] = call.before[p]
            /\ extractedPaths(call.op, call.after) = extractedPaths(call.op, call.before)

\* ----------------------------------------- claims: the resource handlers

\* C30: every resource uri returned by the ListResources handler
\* (flutterflow://projects/<projectId> and its /summary, /files, /components,
\* /pages, /database, /diagnosis variants) is accepted by the ReadResource
\* handler: a read of it is resolved to the project id and the resource type
\* the uri was listed for, and is not rejected as an invalid resource path.
C30_ListedUriIsRead ==
    \A c \in DOMAIN pending :
        \A p \in 1..Len(remote.entries), t \in 1..Len(ResourceTypes) :
            LET uri == resourceUri(remote.entries[p].projectId, ResourceTypes[t])
            IN  (uri \in ListedUris /\ pending[c].pc # "idle" /\ pending[c].uri = uri) =>
                    /\ pending[c].projectId = Str(remote.entries[p].projectId)
                    /\ pending[c].resourceType = ResourceTypes[t]
                    /\ ~(Rejected(c) /\ includes(pending[c].error, "Invalid resource path"))

====
